---- MODULE Spec2Model ----
(***************************************************************************)
(* A model of the parsing core of easy-imslp: the wikitext template        *)
(* extractor, the catalogue-number parser, the instrument normalizer and   *)
(* the response builders.                                                  *)
(*                                                                         *)
(* A JavaScript string is a sequence of one-character strings, so that     *)
(* scanning, slicing, trimming and case folding are computed as the code   *)
(* computes them.  Positions are 1-based here and 0-based in the source;   *)
(* "no position" is 0 here and -1 there.                                   *)
(*                                                                         *)
(* Every function under study is pure.  Each specification draws the       *)
(* inputs of one family of functions from a bounded set in its initial     *)
(* states and has one action per function, which computes the result into  *)
(* out.                                                                    *)
(***************************************************************************)
EXTENDS Integers, Sequences, FiniteSets, TLC

VARIABLES pc, op, inp, out,
          \* Date.now()
          now,
          \* Cache.store: the entries by key
          store,
          \* HttpClient.lastRequestTime
          lastRequestTime,
          \* HttpClient.requestQueue: the calls chained onto the queue whose
          \* request has not settled, oldest first
          requestQueue,
          \* the options, timers and response of each call of request()
          requests,
          \* the calls made to the network, in order
          log,
          \* browseAllPeople: the local variable start
          browseStart,
          \* browseAllPeople: the local variable result
          browseResult

\* the state of the objects: the clock, the cache, the client, the iterator
objects == <<now, store, lastRequestTime, requestQueue, requests, log,
            browseStart, browseResult>>

vars == <<pc, op, inp, out, objects>>

\* no cache, client or iterator has been constructed
NoObjects ==
  /\ now = 0
  /\ store = <<>>
  /\ lastRequestTime = 0
  /\ requestQueue = <<>>
  /\ requests = <<>>
  /\ log = <<>>
  /\ browseStart = 0
  /\ browseResult = <<>>

(***************************************************************************)
(* Bounds of the model.                                                    *)
(***************************************************************************)
\* segments concatenated into one markup text
MaxSegs == 3
\* parameter segments of one generated template
MaxParams == 2

(***************************************************************************)
(* null / undefined and present values.                                    *)
(***************************************************************************)
None == [tag |-> "null"]

Some(v) == [tag |-> "some", val |-> v]

IsSome(x) == x.tag = "some"

(***************************************************************************)
(* String primitives.                                                      *)
(***************************************************************************)
WhiteSpace == {" ", "\n", "\t"}

Digits == <<"0", "1", "2", "3", "4", "5", "6", "7", "8", "9">>

UpperChars ==
  <<"A", "B", "C", "D", "E", "F", "G", "H", "I", "J", "K", "L", "M",
    "N", "O", "P", "Q", "R", "S", "T", "U", "V", "W", "X", "Y", "Z", "Ö">>

LowerChars ==
  <<"a", "b", "c", "d", "e", "f", "g", "h", "i", "j", "k", "l", "m",
    "n", "o", "p", "q", "r", "s", "t", "u", "v", "w", "x", "y", "z", "ö">>

IsDigit(c) == \E i \in 1..10 : Digits[i] = c

IsUpper(c) == \E i \in 1..Len(UpperChars) : UpperChars[i] = c

IsLower(c) == \E i \in 1..Len(LowerChars) : LowerChars[i] = c

LowerChar(c) ==
  IF IsUpper(c)
  THEN LowerChars[CHOOSE i \in 1..Len(UpperChars) : UpperChars[i] = c]
  ELSE c

UpperChar(c) ==
  IF IsLower(c)
  THEN UpperChars[CHOOSE i \in 1..Len(LowerChars) : LowerChars[i] = c]
  ELSE c

\* String.prototype.toLowerCase
toLowerCase(s) == [i \in 1..Len(s) |-> LowerChar(s[i])]

\* String.prototype.toUpperCase
toUpperCase(s) == [i \in 1..Len(s) |-> UpperChar(s[i])]

RECURSIVE TrimStart(_)
TrimStart(s) ==
  IF s # <<>> /\ Head(s) \in WhiteSpace THEN TrimStart(Tail(s)) ELSE s

RECURSIVE TrimEnd(_)
TrimEnd(s) ==
  IF s # <<>> /\ s[Len(s)] \in WhiteSpace
  THEN TrimEnd(SubSeq(s, 1, Len(s) - 1))
  ELSE s

\* String.prototype.trim
trim(s) == TrimEnd(TrimStart(s))

\* s.startsWith(p) at 1-based position i
StartsAt(s, i, p) ==
  /\ i >= 1
  /\ i + Len(p) - 1 <= Len(s)
  /\ \A k \in 1..Len(p) : s[i + k - 1] = p[k]

\* the same, ignoring letter case (the i flag of a regular expression)
StartsAtCI(s, i, p) == StartsAt(toLowerCase(s), i, toLowerCase(p))

startsWith(s, p) == StartsAt(s, 1, p)

endsWith(s, p) == StartsAt(s, Len(s) - Len(p) + 1, p)

\* s.slice(from) with from a 1-based position
SliceFrom(s, from) == SubSeq(s, from, Len(s))

RECURSIVE Flatten(_)
Flatten(ss) == IF ss = <<>> THEN <<>> ELSE Head(ss) \o Flatten(Tail(ss))

\* the character at 1-based position i, or "" past the end (undefined in JS)
CharAt(s, i) == IF i >= 1 /\ i <= Len(s) THEN s[i] ELSE ""

(***************************************************************************)
(* cleanValue: the three replacements and the trim.                        *)
(***************************************************************************)
\* the least j >= from with "-->" at j and no line break in s[from..j-1]: /.*?-->/
RECURSIVE CommentEnd(_, _)
CommentEnd(s, j) ==
  IF j + 2 > Len(s) THEN 0
  ELSE IF StartsAt(s, j, <<"-", "-", ">">>) THEN j
  ELSE IF s[j] = "\n" THEN 0
  ELSE CommentEnd(s, j + 1)

\* .replace(/<!--.*?-->/g, '')
RECURSIVE StripComments(_, _)
StripComments(s, i) ==
  IF i > Len(s) THEN <<>>
  ELSE IF StartsAt(s, i, <<"<", "!", "-", "-">>) /\ CommentEnd(s, i + 4) # 0
       THEN StripComments(s, CommentEnd(s, i + 4) + 3)
       ELSE <<s[i]>> \o StripComments(s, i + 1)

\* the position after \s* from j
RECURSIVE SkipSpace(_, _)
SkipSpace(s, j) ==
  IF j <= Len(s) /\ s[j] \in WhiteSpace THEN SkipSpace(s, j + 1) ELSE j

\* the position after a match of /<br\s*\/?>/i at i, or 0
BrEnd(s, i) ==
  IF ~StartsAtCI(s, i, <<"<", "b", "r">>) THEN 0
  ELSE LET j == SkipSpace(s, i + 3)
           k == IF CharAt(s, j) = "/" THEN j + 1 ELSE j
       IN IF CharAt(s, k) = ">" THEN k + 1 ELSE 0

\* .replace(/<br\s*\/?>/gi, '\n')
RECURSIVE ReplaceBr(_, _)
ReplaceBr(s, i) ==
  IF i > Len(s) THEN <<>>
  ELSE IF BrEnd(s, i) # 0 THEN <<"\n">> \o ReplaceBr(s, BrEnd(s, i))
  ELSE <<s[i]>> \o ReplaceBr(s, i + 1)

\* the position of the first ">" at or after j, or 0
RECURSIVE FirstGt(_, _)
FirstGt(s, j) ==
  IF j > Len(s) THEN 0
  ELSE IF s[j] = ">" THEN j
  ELSE FirstGt(s, j + 1)

\* the position after a match of /<[^>]+>/ at i, or 0
TagEnd(s, i) ==
  IF CharAt(s, i) = "<" /\ i + 1 <= Len(s) /\ s[i + 1] # ">" /\ FirstGt(s, i + 2) # 0
  THEN FirstGt(s, i + 2) + 1
  ELSE 0

\* .replace(/<[^>]+>/g, '')
RECURSIVE StripTags(_, _)
StripTags(s, i) ==
  IF i > Len(s) THEN <<>>
  ELSE IF TagEnd(s, i) # 0 THEN StripTags(s, TagEnd(s, i))
  ELSE <<s[i]>> \o StripTags(s, i + 1)

cleanValue(value) ==
  trim(StripTags(ReplaceBr(StripComments(value, 1), 1), 1))

(***************************************************************************)
(* splitTemplateParts and findUnnestedEquals: the two nesting counters.    *)
(***************************************************************************)
\* a mutant: the link depth is not consulted
SplitHere_NoLinkDepth(char, depth, linkDepth) == char = "|" /\ depth = 0

\* "Split on | only at top level"
SplitHere(char, depth, linkDepth) == char = "|" /\ depth = 0 /\ linkDepth = 0

\* The loops below copy every character that is neither a "|" or "=" nor the
\* first of a doubled bracket, so they are advanced from one such position
\* to the next: the first position from i on with a character of singles, or
\* with a character of doubles that is followed by the same character
\* (Len(s) + 1 if there is none).
NextDelimiter(s, i, singles, doubles) ==
  LET at == {j \in i..Len(s) :
               \/ s[j] \in singles
               \/ s[j] \in doubles /\ CharAt(s, j + 1) = s[j]}
  IN IF at = {} THEN Len(s) + 1 ELSE CHOOSE j \in at : \A k \in at : j <= k

\* current is content from position from up to the position reached
RECURSIVE SplitLoop(_, _, _, _, _, _)
SplitLoop(content, i, depth, linkDepth, from, parts) ==
  LET j == NextDelimiter(content, i, {"|"}, {"{", "}", "[", "]"})
      char == content[j]
  IN IF j > Len(content)
     THEN IF from <= Len(content)
          THEN Append(parts, SubSeq(content, from, Len(content)))
          ELSE parts
     ELSE IF char = "{" THEN SplitLoop(content, j + 2, depth + 1, linkDepth, from, parts)
     ELSE IF char = "}" THEN SplitLoop(content, j + 2, depth - 1, linkDepth, from, parts)
     ELSE IF char = "[" THEN SplitLoop(content, j + 2, depth, linkDepth + 1, from, parts)
     ELSE IF char = "]" THEN SplitLoop(content, j + 2, depth, linkDepth - 1, from, parts)
     ELSE IF SplitHere(char, depth, linkDepth)
     THEN SplitLoop(content, j + 1, depth, linkDepth, j + 1,
                    Append(parts, SubSeq(content, from, j - 1)))
     ELSE SplitLoop(content, j + 1, depth, linkDepth, from, parts)

splitTemplateParts(content) == SplitLoop(content, 1, 0, 0, 1, <<>>)

RECURSIVE EqualsLoop(_, _, _, _)
EqualsLoop(str, i, depth, linkDepth) ==
  LET j == NextDelimiter(str, i, {"="}, {"{", "}", "[", "]"})
      char == str[j]
  IN IF j > Len(str) THEN 0
     ELSE IF char = "{" THEN EqualsLoop(str, j + 2, depth + 1, linkDepth)
     ELSE IF char = "}" THEN EqualsLoop(str, j + 2, depth - 1, linkDepth)
     ELSE IF char = "[" THEN EqualsLoop(str, j + 2, depth, linkDepth + 1)
     ELSE IF char = "]" THEN EqualsLoop(str, j + 2, depth, linkDepth - 1)
     ELSE IF depth = 0 /\ linkDepth = 0 THEN j
     ELSE EqualsLoop(str, j + 1, depth, linkDepth)

\* the 1-based position of the first unnested "=", or 0
findUnnestedEquals(str) == EqualsLoop(str, 1, 0, 0)

(***************************************************************************)
(* parseTemplate.                                                          *)
(***************************************************************************)
\* params[key] = value on a JS object: a later write to a key replaces the earlier
SetParam(params, key, value) == (key :> value) @@ params

HasParam(params, key) == key \in DOMAIN params

RECURSIVE ParamLoop(_, _, _, _)
ParamLoop(parts, i, params, positional) ==
  IF i > Len(parts) THEN [params |-> params, positional |-> positional]
  ELSE LET part == parts[i]
           eqIndex == findUnnestedEquals(part)
       IN IF eqIndex # 0
          THEN LET key == trim(SubSeq(part, 1, eqIndex - 1))
                   value == trim(SliceFrom(part, eqIndex + 1))
               IN IF key # <<>>
                  THEN ParamLoop(parts, i + 1, SetParam(params, key, cleanValue(value)), positional)
                  ELSE ParamLoop(parts, i + 1, params, positional)
          ELSE ParamLoop(parts, i + 1, params, Append(positional, cleanValue(trim(part))))

parseTemplate(templateStr) ==
  LET inner == trim(SubSeq(templateStr, 3, Len(templateStr) - 2))
      parts == splitTemplateParts(inner)
      name == IF parts = <<>> THEN <<>> ELSE trim(parts[1])
      ps == ParamLoop(parts, 2, <<>>, <<>>)
  IN IF inner = <<>> THEN None
     ELSE IF parts = <<>> THEN None
     ELSE IF name = <<>> THEN None
     ELSE Some([name |-> name, params |-> ps.params,
                positional |-> ps.positional, raw |-> templateStr])

(***************************************************************************)
(* extractTemplates.                                                       *)
(***************************************************************************)
\* a mutant: a closing pair ends a template at any depth
ClosesTemplate_AnyDepth(depth, start) == start # 0

\* "depth === 0 && start !== -1", depth being the depth after the decrement
ClosesTemplate(depth, start) == depth = 0 /\ start # 0

RECURSIVE ExtractLoop(_, _, _, _, _)
ExtractLoop(wikitext, i, depth, start, templates) ==
  LET j == NextDelimiter(wikitext, i, {}, {"{", "}"})
  IN IF j > Len(wikitext) - 1 THEN templates
     ELSE IF wikitext[j] = "{"
     THEN ExtractLoop(wikitext, j + 2, depth + 1,
                      IF depth = 0 THEN j ELSE start, templates)
     ELSE IF ClosesTemplate(depth - 1, start)
     THEN LET parsed == parseTemplate(SubSeq(wikitext, start, j + 1))
          IN ExtractLoop(wikitext, j + 2, depth - 1, 0,
                         IF IsSome(parsed) THEN Append(templates, parsed.val)
                         ELSE templates)
     ELSE ExtractLoop(wikitext, j + 2, depth - 1, start, templates)

extractTemplates(wikitext) == ExtractLoop(wikitext, 1, 0, 0, <<>>)

(***************************************************************************)
(* Regular expressions.  A pattern is a sequence of nodes, matched by      *)
(* backtracking in the priority order of the JavaScript engine: greedy     *)
(* quantifiers first, alternatives left to right, the leftmost start       *)
(* first.  A match is [ok, from, to, caps], caps[n] being capture group n  *)
(* (None when the group took no part).  The nodes "bos" and "eos" are ^    *)
(* and $ without the m flag, "dot" is one character other than a line      *)
(* break.                                                                  *)
(***************************************************************************)
DigitSet == {Digits[i] : i \in 1..10}

LetterSet == {LowerChars[i] : i \in 1..26}

\* \w
WordChars == DigitSet \cup LetterSet \cup {UpperChars[i] : i \in 1..26} \cup {"_"}

IsWordChar(c) == c \in WordChars

\* one character of a class, under the i flag (the class given in lower case)
ChI(set) == [t |-> "ch", set |-> set, ci |-> TRUE]

\* one character of a class, case-sensitive
Ch(set) == [t |-> "ch", set |-> set, ci |-> FALSE]

\* a literal text under the i flag
LitI(s) == [i \in 1..Len(s) |-> ChI({LowerChar(s[i])})]

\* (?:body)?  and  (?:body)*  and  (body) as group n  and  a|b  and  \b
Opt(body) == [t |-> "opt", body |-> body]

Star(body) == [t |-> "star", body |-> body]

Grp(n, body) == [t |-> "grp", n |-> n, body |-> body]

Alt(a, b) == [t |-> "alt", a |-> a, b |-> b]

WordB == [t |-> "b"]

Plus(body) == body \o <<Star(body)>>

NoMatch == [ok |-> FALSE]

RECURSIVE MatchAt(_, _, _, _)
MatchAt(nodes, s, i, caps) ==
  IF Len(nodes) = 0 THEN [ok |-> TRUE, to |-> i, caps |-> caps]
  ELSE LET n == Head(nodes)
           rest == Tail(nodes)
       IN CASE n.t = "ch" ->
                 IF i <= Len(s) /\ (IF n.ci THEN LowerChar(s[i]) ELSE s[i]) \in n.set
                 THEN MatchAt(rest, s, i + 1, caps)
                 ELSE NoMatch
            [] n.t = "b" ->
                 IF IsWordChar(CharAt(s, i - 1)) # IsWordChar(CharAt(s, i))
                 THEN MatchAt(rest, s, i, caps)
                 ELSE NoMatch
            [] n.t = "dot" ->
                 IF i <= Len(s) /\ s[i] # "\n"
                 THEN MatchAt(rest, s, i + 1, caps)
                 ELSE NoMatch
            [] n.t = "bos" ->
                 IF i = 1 THEN MatchAt(rest, s, i, caps) ELSE NoMatch
            [] n.t = "eos" ->
                 IF i = Len(s) + 1 THEN MatchAt(rest, s, i, caps) ELSE NoMatch
            [] n.t = "opt" ->
                 LET r == MatchAt(n.body \o rest, s, i, caps)
                 IN IF r.ok THEN r ELSE MatchAt(rest, s, i, caps)
            [] n.t = "star" ->
                 LET r == MatchAt(n.body \o <<n>> \o rest, s, i, caps)
                 IN IF r.ok THEN r ELSE MatchAt(rest, s, i, caps)
            [] n.t = "alt" ->
                 LET r == MatchAt(n.a \o rest, s, i, caps)
                 IN IF r.ok THEN r ELSE MatchAt(n.b \o rest, s, i, caps)
            [] n.t = "grp" ->
                 MatchAt(n.body \o <<[t |-> "end", n |-> n.n, from |-> i]>> \o rest, s, i, caps)
            [] n.t = "end" ->
                 MatchAt(rest, s, i, [caps EXCEPT ![n.n] = Some(SubSeq(s, n.from, i - 1))])

RECURSIVE SearchFrom(_, _, _)
SearchFrom(pattern, s, i) ==
  IF i > Len(s) + 1 THEN NoMatch
  ELSE LET r == MatchAt(pattern, s, i, <<None, None, None>>)
       IN IF r.ok THEN [ok |-> TRUE, from |-> i, to |-> r.to, caps |-> r.caps]
          ELSE SearchFrom(pattern, s, i + 1)

\* s.match(pattern) for a pattern without the g flag; pattern.test(s) is its ok
RegExpMatch(s, pattern) == SearchFrom(pattern, s, 1)

\* parseInt(digits, 10) on a run of decimal digits
RECURSIVE parseInt(_)
parseInt(ds) ==
  IF ds = <<>> THEN 0
  ELSE 10 * parseInt(SubSeq(ds, 1, Len(ds) - 1))
       + (CHOOSE d \in 0..9 : Digits[d + 1] = ds[Len(ds)])

\* `${n}` for a non-negative integer
RECURSIVE NumberToString(_)
NumberToString(n) ==
  IF n < 10 THEN <<Digits[n + 1]>>
  ELSE NumberToString(n \div 10) \o <<Digits[(n % 10) + 1]>>

(***************************************************************************)
(* Inputs of the template extractor: a markup text is a concatenation of   *)
(* at most MaxSegs segments of the table below.  kind tells what a segment *)
(* is: plain text, a well-formed template invocation (with the name the    *)
(* author gave it), the empty template, a stray closing pair, or an        *)
(* opening pair that is never closed.                                      *)
(***************************************************************************)
MarkupSegments ==
  << [kind |-> "text", text |-> <<"x", " ">>, name |-> <<>>],
     [kind |-> "template", text |-> <<"{", "{", "A", "}", "}">>, name |-> <<"A">>],
     [kind |-> "template", text |-> <<"{", "{", "B", "|", "k", "=", "v", "}", "}">>,
      name |-> <<"B">>],
     [kind |-> "template",
      text |-> <<"{", "{", "C", "|", "{", "{", "D", "|", "e", "}", "}", "}", "}">>,
      name |-> <<"C">>],
     [kind |-> "template",
      text |-> <<"{", "{", "E", "|", "p", "=", "{", "{", "F", "}", "}", "|",
                 "[", "[", "L", "|", "M", "]", "]", "}", "}">>,
      name |-> <<"E">>],
     [kind |-> "empty", text |-> <<"{", "{", "}", "}">>, name |-> <<>>],
     [kind |-> "strayClose", text |-> <<"}", "}">>, name |-> <<>>],
     [kind |-> "truncatedOpen", text |-> <<"{", "{", "G", "|">>, name |-> <<>>],
     [kind |-> "text", text |-> <<"[", "[", "P", "]", "]">>, name |-> <<>>] >>

SeqsUpTo(S, n) == UNION {[1..k -> S] : k \in 0..n}

\* the markup text a sequence of segment numbers stands for
MarkupText(segs) == Flatten([i \in 1..Len(segs) |-> MarkupSegments[segs[i]].text])

SegKinds(segs) == {MarkupSegments[segs[i]].kind : i \in 1..Len(segs)}

\* the positions of segs that hold a well-formed template, in order
RECURSIVE TemplateSegs(_)
TemplateSegs(segs) ==
  IF segs = <<>> THEN <<>>
  ELSE IF MarkupSegments[Head(segs)].kind = "template"
       THEN <<Head(segs)>> \o TemplateSegs(Tail(segs))
       ELSE TemplateSegs(Tail(segs))

InitTemplates ==
  /\ pc = "start"
  /\ op = "none"
  /\ inp \in SeqsUpTo(1..Len(MarkupSegments), MaxSegs)
  /\ out = None
  /\ NoObjects

DoExtractTemplates ==
  /\ pc = "start"
  /\ pc' = "done"
  /\ op' = "extractTemplates"
  /\ out' = extractTemplates(MarkupText(inp))
  /\ UNCHANGED inp
  /\ UNCHANGED objects

NextTemplates == DoExtractTemplates

SpecTemplates == InitTemplates /\ [][NextTemplates]_vars

Extracted == pc = "done" /\ op = "extractTemplates"

\* every segment is plain text, a well-formed template or the empty template
BalancedMarkup(segs) == SegKinds(segs) \subseteq {"text", "template", "empty"}

\* C1: on balanced markup made of plain text and N top-level template
\* invocations, extractTemplates returns exactly those N templates, each with
\* its own text and name, in document order; a template nested in a parameter
\* value is not a result of its own.
C1_TopLevelInOrder ==
  (Extracted /\ BalancedMarkup(inp)) =>
    LET want == TemplateSegs(inp)
    IN /\ Len(out) = Len(want)
       /\ \A i \in 1..Len(want) :
            /\ out[i].raw = MarkupSegments[want[i]].text
            /\ out[i].name = MarkupSegments[want[i]].name

\* C1 witness: balanced markup with text between two templates, one of them
\* holding a nested template, has been extracted.
C1_Witness ==
  /\ Extracted
  /\ BalancedMarkup(inp)
  /\ Len(TemplateSegs(inp)) = 2
  /\ \E i \in 1..Len(inp) : inp[i] = 4
  /\ Len(out) = 2

\* no stray closing pair follows an unclosed opening pair, so that every
\* template segment is a balanced pair of its own and not the inside of an
\* outer pair
NoOuterPair(segs) ==
  \A i, j \in 1..Len(segs) :
    (MarkupSegments[segs[i]].kind = "truncatedOpen" /\
     MarkupSegments[segs[j]].kind = "strayClose") => j < i

\* C2: every template whose opening and closing pair are balanced is
\* returned, also when a stray closing pair or a truncated opening pair
\* stands elsewhere in the text.
C2_BalancedNeverOmitted ==
  (Extracted /\ NoOuterPair(inp) /\
   SegKinds(inp) \subseteq {"text", "template", "strayClose", "truncatedOpen"}) =>
    \A i \in 1..Len(inp) :
      MarkupSegments[inp[i]].kind = "template" =>
        \E j \in 1..Len(out) : out[j].raw = MarkupSegments[inp[i]].text

(***************************************************************************)
(* Inputs of parseTemplate: "{{" name "|" segment ... "}}" with at most    *)
(* MaxParams segments of the table below.  For each segment the table      *)
(* records what its author wrote: whether it has an "=" outside any        *)
(* nested template or link (eq), the key before it, the value as written   *)
(* (val), the value after cleaning (clean), and whether the value is a     *)
(* nested template or link (nested).                                       *)
(***************************************************************************)
TemplateNames == << <<"T">>, <<" ", "T", " ">>, <<>> >>

ParamSegments ==
  << [text |-> <<"k", "=", "v">>, eq |-> TRUE, key |-> <<"k">>,
      val |-> <<"v">>, clean |-> <<"v">>, nested |-> FALSE],
     [text |-> <<" ", "k", " ", "=", " ", "v", " ">>, eq |-> TRUE, key |-> <<"k">>,
      val |-> <<"v">>, clean |-> <<"v">>, nested |-> FALSE],
     [text |-> <<"p">>, eq |-> FALSE, key |-> <<>>,
      val |-> <<"p">>, clean |-> <<"p">>, nested |-> FALSE],
     [text |-> <<"{", "{", "I", "|", "x", "=", "y", "}", "}">>, eq |-> FALSE, key |-> <<>>,
      val |-> <<"{", "{", "I", "|", "x", "=", "y", "}", "}">>,
      clean |-> <<"{", "{", "I", "|", "x", "=", "y", "}", "}">>, nested |-> TRUE],
     [text |-> <<"l", "=", "[", "[", "P", "|", "D", "]", "]">>, eq |-> TRUE, key |-> <<"l">>,
      val |-> <<"[", "[", "P", "|", "D", "]", "]">>,
      clean |-> <<"[", "[", "P", "|", "D", "]", "]">>, nested |-> TRUE],
     [text |-> <<"[", "[", "P", "|", "D", "=", "E", "]", "]">>, eq |-> FALSE, key |-> <<>>,
      val |-> <<"[", "[", "P", "|", "D", "=", "E", "]", "]">>,
      clean |-> <<"[", "[", "P", "|", "D", "=", "E", "]", "]">>, nested |-> TRUE],
     [text |-> <<"=", "v">>, eq |-> TRUE, key |-> <<>>,
      val |-> <<"v">>, clean |-> <<"v">>, nested |-> FALSE],
     [text |-> <<>>, eq |-> FALSE, key |-> <<>>,
      val |-> <<>>, clean |-> <<>>, nested |-> FALSE],
     [text |-> <<"k", "=", "w", "<", "!", "-", "-", "c", "-", "-", ">">>, eq |-> TRUE,
      key |-> <<"k">>, val |-> <<"w", "<", "!", "-", "-", "c", "-", "-", ">">>,
      clean |-> <<"w">>, nested |-> FALSE],
     [text |-> <<"a", "<", "b", "r", ">", "b">>, eq |-> FALSE, key |-> <<>>,
      val |-> <<"a", "<", "b", "r", ">", "b">>, clean |-> <<"a", "\n", "b">>,
      nested |-> FALSE],
     [text |-> <<"m", "=", "{", "{", "I", "|", "<", "i", ">", "z", "<", "/", "i", ">", "}", "}">>,
      eq |-> TRUE, key |-> <<"m">>,
      val |-> <<"{", "{", "I", "|", "<", "i", ">", "z", "<", "/", "i", ">", "}", "}">>,
      clean |-> <<"{", "{", "I", "|", "z", "}", "}">>, nested |-> TRUE],
     [text |-> <<"n", "=", "x", "=", "y">>, eq |-> TRUE, key |-> <<"n">>,
      val |-> <<"x", "=", "y">>, clean |-> <<"x", "=", "y">>, nested |-> FALSE] >>

RECURSIVE JoinSegments(_)
JoinSegments(segs) ==
  IF segs = <<>> THEN <<>>
  ELSE <<"|">> \o ParamSegments[Head(segs)].text \o JoinSegments(Tail(segs))

\* the template text an input [name, segs] stands for
TemplateText(in) ==
  <<"{", "{">> \o TemplateNames[in.name] \o JoinSegments(in.segs) \o <<"}", "}">>

InitParseTemplate ==
  /\ pc = "start"
  /\ op = "none"
  /\ inp \in [name : 1..Len(TemplateNames),
              segs : SeqsUpTo(1..Len(ParamSegments), MaxParams)]
  /\ out = None
  /\ NoObjects

DoParseTemplate ==
  /\ pc = "start"
  /\ pc' = "done"
  /\ op' = "parseTemplate"
  /\ out' = parseTemplate(TemplateText(inp))
  /\ UNCHANGED inp
  /\ UNCHANGED objects

NextParseTemplate == DoParseTemplate

SpecParseTemplate == InitParseTemplate /\ [][NextParseTemplate]_vars

ParsedOne == pc = "done" /\ op = "parseTemplate"

\* the segments that count as parameters: an empty last segment is not one
\* (the splitter does not push an empty final part)
CountedSegs(segs) ==
  IF segs # <<>> /\ trim(ParamSegments[segs[Len(segs)]].text) = <<>>
  THEN SubSeq(segs, 1, Len(segs) - 1)
  ELSE segs

\* the named parameters the author wrote, a later one replacing an earlier
\* one of the same key, a segment with an empty key giving none
RECURSIVE WantParams(_)
WantParams(segs) ==
  IF segs = <<>> THEN <<>>
  ELSE LET last == ParamSegments[segs[Len(segs)]]
           rest == WantParams(SubSeq(segs, 1, Len(segs) - 1))
       IN IF last.eq /\ last.key # <<>> THEN (last.key :> last.clean) @@ rest ELSE rest

\* the positional parameters the author wrote, in order
RECURSIVE WantPositional(_)
WantPositional(segs) ==
  IF segs = <<>> THEN <<>>
  ELSE LET first == ParamSegments[Head(segs)]
       IN IF first.eq THEN WantPositional(Tail(segs))
          ELSE <<first.clean>> \o WantPositional(Tail(segs))

CATALOGUE_PATTERNS ==
  LET b == <<WordB>>
      sp == <<Star(<<ChI(WhiteSpace)>>)>>
      dot == <<Opt(LitI(<<".">>))>>
      num(n) == <<Grp(n, Plus(<<ChI(DigitSet)>>))>>
      let(n) == <<Opt(<<Grp(n, <<ChI(LetterSet)>>)>>)>>
      roman == <<Grp(1, Plus(<<ChI({"i", "v", "x"})>>))>>
      colon == <<Opt(<<ChI({":", "/"})>>)>>
  IN << \* /\bBWV\s*\.?\s*(\d+)([a-z])?(?:\s*\/\s*(\d+))?/i
       [system |-> <<"b", "w", "v">>,
        pattern |-> b \o LitI(<<"B", "W", "V">>) \o sp \o dot \o sp \o num(1) \o let(2) \o <<Opt(sp \o LitI(<<"/">>) \o sp \o num(3))>>],
       \* /\bK(?:V|\.)\s*(\d+)([a-z])?/i
       [system |-> <<"k">>,
        pattern |-> b \o LitI(<<"K">>) \o <<Alt(LitI(<<"V">>), LitI(<<".">>))>> \o sp \o num(1) \o let(2)],
       \* /\bKöchel\s*(\d+)([a-z])?/i
       [system |-> <<"k">>,
        pattern |-> b \o LitI(<<"K", "ö", "c", "h", "e", "l">>) \o sp \o num(1) \o let(2)],
       \* /\bD\.?\s*(\d+)([a-z])?/i
       [system |-> <<"d">>,
        pattern |-> b \o LitI(<<"D">>) \o dot \o sp \o num(1) \o let(2)],
       \* /\bDeutsch\s*(\d+)/i
       [system |-> <<"d">>,
        pattern |-> b \o LitI(<<"D", "e", "u", "t", "s", "c", "h">>) \o sp \o num(1)],
       \* /\bHob\.?\s*([IVX]+)[:/]?\s*(\d+)/i
       [system |-> <<"h", "o", "b">>,
        pattern |-> b \o LitI(<<"H", "o", "b">>) \o dot \o sp \o roman \o colon \o sp \o num(2)],
       \* /\bHoboken\s*([IVX]+)[:/]?\s*(\d+)/i
       [system |-> <<"h", "o", "b">>,
        pattern |-> b \o LitI(<<"H", "o", "b", "o", "k", "e", "n">>) \o sp \o roman \o colon \o sp \o num(2)],
       \* /\bHWV\s*\.?\s*(\d+)([a-z])?/i
       [system |-> <<"h", "w", "v">>,
        pattern |-> b \o LitI(<<"H", "W", "V">>) \o sp \o dot \o sp \o num(1) \o let(2)],
       \* /\bRV\s*\.?\s*(\d+)([a-z])?/i
       [system |-> <<"r", "v">>,
        pattern |-> b \o LitI(<<"R", "V">>) \o sp \o dot \o sp \o num(1) \o let(2)],
       \* /\bRyom\s*(\d+)/i
       [system |-> <<"r", "v">>,
        pattern |-> b \o LitI(<<"R", "y", "o", "m">>) \o sp \o num(1)],
       \* /\bWoO\s*\.?\s*(\d+)/i
       [system |-> <<"w", "o", "o">>,
        pattern |-> b \o LitI(<<"W", "o", "O">>) \o sp \o dot \o sp \o num(1)],
       \* /\bS\.?\s*(\d+)([a-z])?/i
       [system |-> <<"s">>,
        pattern |-> b \o LitI(<<"S">>) \o dot \o sp \o num(1) \o let(2)],
       \* /\bWWV\s*\.?\s*(\d+)/i
       [system |-> <<"w", "w", "v">>,
        pattern |-> b \o LitI(<<"W", "W", "V">>) \o sp \o dot \o sp \o num(1)],
       \* /\bTWV\s*\.?\s*(\d+)[:/](\d+)/i
       [system |-> <<"t", "w">>,
        pattern |-> b \o LitI(<<"T", "W", "V">>) \o sp \o dot \o sp \o num(1) \o <<ChI({":", "/"})>> \o num(2)],
       \* /\bL\.?\s*(\d+)/i
       [system |-> <<"l">>,
        pattern |-> b \o LitI(<<"L">>) \o dot \o sp \o num(1)],
       \* /\bOp(?:us)?\.?\s*(\d+)(?:\s*(?:No\.?|Nr\.?|,)\s*(\d+))?/i
       [system |-> <<"o", "p">>,
        pattern |-> b \o LitI(<<"O", "p">>) \o <<Opt(LitI(<<"u", "s">>))>> \o dot \o sp \o num(1)
           \o <<Opt(sp \o <<Alt(LitI(<<"N", "o">>) \o dot, <<Alt(LitI(<<"N", "r">>) \o dot, LitI(<<",">>))>>)>> \o sp \o num(2))>>],
       \* /\bOp(?:us)?\.?\s*posth(?:umous)?\.?/i
       [system |-> <<"o", "p">>,
        pattern |-> b \o LitI(<<"O", "p">>) \o <<Opt(LitI(<<"u", "s">>))>> \o dot \o sp \o LitI(<<"p", "o", "s", "t", "h">>) \o <<Opt(LitI(<<"u", "m", "o", "u", "s">>))>> \o dot] >>

\* match[n] is truthy: the group took part and is not the empty string
Truthy(cap) == IsSome(cap) /\ cap.val # <<>>

\* /posth/i.test(raw)
PosthTest(raw) == RegExpMatch(raw, LitI(<<"p", "o", "s", "t", "h">>)).ok

\* a mutant: the number is extracted before the posthumous marker is looked for
OpusMatch_NumberFirst(result, raw, match) ==
  LET numbered == IF Truthy(match[1])
                  THEN [result EXCEPT !.number = Some(parseInt(match[1].val))]
                  ELSE result
  IN IF PosthTest(raw) THEN [numbered EXCEPT !.suffix = Some(<<"p", "o", "s", "t", "h", ".">>)]
     ELSE IF Truthy(match[2])
          THEN [numbered EXCEPT !.suffix = Some(<<"N", "o", ".">> \o match[2].val)]
          ELSE numbered

\* parseCatalogueMatch, the branch of system 'op'
OpusMatch(result, raw, match) ==
  IF PosthTest(raw) THEN [result EXCEPT !.suffix = Some(<<"p", "o", "s", "t", "h", ".">>)]
  ELSE LET numbered == IF Truthy(match[1])
                       THEN [result EXCEPT !.number = Some(parseInt(match[1].val))]
                       ELSE result
       IN IF Truthy(match[2])
          THEN [numbered EXCEPT !.suffix = Some(<<"N", "o", ".">> \o match[2].val)]
          ELSE numbered

parseCatalogueMatch(raw, system, match) ==
  LET result == [raw |-> raw, system |-> Some(system), number |-> None, suffix |-> None]
  IN IF system = <<"h", "o", "b">> /\ Truthy(match[1]) /\ Truthy(match[2])
     THEN [result EXCEPT !.number = Some(parseInt(match[2].val)), !.suffix = Some(match[1].val)]
     ELSE IF system = <<"t", "w">> /\ Truthy(match[1]) /\ Truthy(match[2])
     THEN [result EXCEPT !.number = Some(parseInt(match[1].val)), !.suffix = Some(match[2].val)]
     ELSE IF system = <<"o", "p">>
     THEN OpusMatch(result, raw, match)
     ELSE LET numbered == IF Truthy(match[1])
                          THEN [result EXCEPT !.number = Some(parseInt(match[1].val))]
                          ELSE result
          IN IF Truthy(match[2])
             THEN [numbered EXCEPT !.suffix = Some(toLowerCase(match[2].val))]
             ELSE numbered

\* the first pattern of the table, from the k-th on, that matches; 0 if none
RECURSIVE FirstPattern(_, _)
FirstPattern(trimmed, k) ==
  IF k > Len(CATALOGUE_PATTERNS) THEN 0
  ELSE IF RegExpMatch(trimmed, CATALOGUE_PATTERNS[k].pattern).ok THEN k
  ELSE FirstPattern(trimmed, k + 1)

\* a mutant: every unmatched text is returned raw
LooksLikeNumber_Always(trimmed) == TRUE

\* /\d/.test(trimmed)
LooksLikeNumber(trimmed) == \E i \in 1..Len(trimmed) : IsDigit(trimmed[i])

parseCatalogue(text) ==
  LET trimmed == trim(text)
      k == FirstPattern(trimmed, 1)
  IN IF text = <<>> THEN None
     ELSE IF trimmed = <<>> THEN None
     ELSE IF k # 0
     THEN Some(parseCatalogueMatch(trimmed, CATALOGUE_PATTERNS[k].system,
                                   RegExpMatch(trimmed, CATALOGUE_PATTERNS[k].pattern).caps))
     ELSE IF LooksLikeNumber(trimmed)
     THEN Some([raw |-> trimmed, system |-> None, number |-> None, suffix |-> None])
     ELSE None

SYSTEM_PREFIXES ==
  (<<"o", "p">> :> <<"O", "p", ".">>) @@
  (<<"b", "w", "v">> :> <<"B", "W", "V">>) @@
  (<<"k">> :> <<"K", ".">>) @@
  (<<"d">> :> <<"D", ".">>) @@
  (<<"h", "o", "b">> :> <<"H", "o", "b", ".">>) @@
  (<<"h", "w", "v">> :> <<"H", "W", "V">>) @@
  (<<"r", "v">> :> <<"R", "V">>) @@
  (<<"w", "o", "o">> :> <<"W", "o", "O">>) @@
  (<<"s">> :> <<"S", ".">>) @@
  (<<"w", "w", "v">> :> <<"W", "W", "V">>) @@
  (<<"t", "w">> :> <<"T", "W", "V">>) @@
  (<<"l">> :> <<"L", ".">>)

\* formatCatalogue; !info.system and !info.number are JavaScript falsiness
formatCatalogue(info) ==
  IF info.system = None \/ info.system = Some(<<>>) \/ info.number = None \/ info.number = Some(0)
  THEN info.raw
  ELSE LET system == info.system.val
           prefix == IF system \in DOMAIN SYSTEM_PREFIXES THEN SYSTEM_PREFIXES[system]
                     ELSE toUpperCase(system)
           number == NumberToString(info.number.val)
           result == prefix \o <<" ">> \o number
       IN IF Truthy(info.suffix)
          THEN IF system = <<"o", "p">> /\ startsWith(info.suffix.val, <<"N", "o">>)
               THEN result \o <<" ">> \o info.suffix.val
               ELSE IF system = <<"h", "o", "b">>
               THEN prefix \o <<" ">> \o info.suffix.val \o <<":">> \o number
               ELSE result \o info.suffix.val
          ELSE result

\* String.prototype.localeCompare on the characters of system tags and
\* suffixes: letters after digits after punctuation, compared without regard
\* to case first, a lower-case letter before its upper-case form on a tie
localeCompare(a, b) ==
  LET order == <<" ", ",", ".", "/", ":">> \o Digits \o LowerChars
      rank(c) == IF \E i \in 1..Len(order) : order[i] = LowerChar(c)
                 THEN CHOOSE i \in 1..Len(order) : order[i] = LowerChar(c)
                 ELSE 0
      n == IF Len(a) < Len(b) THEN Len(a) ELSE Len(b)
      diff == {i \in 1..n : rank(a[i]) # rank(b[i])}
      caseDiff == {i \in 1..n : a[i] # b[i]}
      first(S) == CHOOSE i \in S : \A j \in S : i <= j
  IN IF diff # {} THEN (IF rank(a[first(diff)]) < rank(b[first(diff)]) THEN -1 ELSE 1)
     ELSE IF Len(a) # Len(b) THEN (IF Len(a) < Len(b) THEN -1 ELSE 1)
     ELSE IF caseDiff # {} THEN (IF IsLower(a[first(caseDiff)]) THEN -1 ELSE 1)
     ELSE 0

compareCatalogues(a, b) ==
  LET aNum == IF a.number = None THEN 0 ELSE a.number.val
      bNum == IF b.number = None THEN 0 ELSE b.number.val
      aSuffix == IF a.suffix = None THEN <<>> ELSE a.suffix.val
      bSuffix == IF b.suffix = None THEN <<>> ELSE b.suffix.val
  IN IF Truthy(a.system) /\ Truthy(b.system) /\ a.system # b.system
     THEN localeCompare(a.system.val, b.system.val)
     ELSE IF aNum # bNum THEN aNum - bNum
     ELSE localeCompare(aSuffix, bSuffix)

(***************************************************************************)
(* Inputs of the catalogue parser: prefix, space, mid and tail, one row of *)
(* each table below, concatenated.  The mid table records the value        *)
(* of the number the text starts with (num, -1 if none) and whether it is  *)
(* only that number (pure); the tail table records the sub-number that a   *)
(* "No.", "Nr." or comma introduces (sub) and whether the tail holds the   *)
(* posthumous marker (posth).                                              *)
(***************************************************************************)
CataloguePrefixes ==
  << <<>>,
     <<"B", "W", "V">>,
     <<"b", "w", "v">>,
     <<"K", ".">>,
     <<"K", "V">>,
     <<"K", "ö", "c", "h", "e", "l">>,
     <<"D", ".">>,
     <<"D">>,
     <<"H", "o", "b", ".">>,
     <<"H", "o", "b", "o", "k", "e", "n">>,
     <<"H", "W", "V">>,
     <<"R", "V">>,
     <<"W", "o", "O">>,
     <<"S", ".">>,
     <<"W", "W", "V">>,
     <<"T", "W", "V">>,
     <<"L", ".">>,
     <<"O", "p", ".">>,
     <<"O", "p", "u", "s">>,
     <<"o", "p">>,
     <<"C", "u", "s", "t", "o", "m">>,
     <<"J", "u", "s", "t", " ", "t", "e", "x", "t">>,
     <<" ", "S", "e", "e", " ", "B", "W", "V">>,
     <<"S", "o", "n", "a", "t", "a", " ", "O", "p", ".">>,
     <<"x", "B", "W", "V">> >>

CatalogueSpaces == << <<>>, <<" ">> >>

CatalogueMids ==
  << [text |-> <<>>, num |-> -1, pure |-> FALSE],
     [text |-> <<"0">>, num |-> 0, pure |-> TRUE],
     [text |-> <<"7">>, num |-> 7, pure |-> TRUE],
     [text |-> <<"1", "0", "0", "1">>, num |-> 1001, pure |-> TRUE],
     [text |-> <<"X", "V", "I", ":", "5", "2">>, num |-> -1, pure |-> FALSE],
     [text |-> <<"i", "i", "/", "3">>, num |-> -1, pure |-> FALSE],
     [text |-> <<"5", "1", ":", "1">>, num |-> 51, pure |-> FALSE],
     [text |-> <<"5", "1", ":", "D", "1">>, num |-> 51, pure |-> FALSE] >>

CatalogueTails ==
  << [text |-> <<>>, sub |-> <<>>, posth |-> FALSE],
     [text |-> <<"a">>, sub |-> <<>>, posth |-> FALSE],
     [text |-> <<"B">>, sub |-> <<>>, posth |-> FALSE],
     [text |-> <<" ", "N", "o", ".", " ", "2">>, sub |-> <<"2">>, posth |-> FALSE],
     [text |-> <<" ", "N", "r", ".", "2">>, sub |-> <<"2">>, posth |-> FALSE],
     [text |-> <<",", "3">>, sub |-> <<"3">>, posth |-> FALSE],
     [text |-> <<" ", "p", "o", "s", "t", "h", ".">>, sub |-> <<>>, posth |-> TRUE],
     [text |-> <<" ", "P", "o", "s", "t", "h", "u", "m", "o", "u", "s">>, sub |-> <<>>, posth |-> TRUE],
     [text |-> <<"/", "2">>, sub |-> <<>>, posth |-> FALSE],
     [text |-> <<" ", "x">>, sub |-> <<>>, posth |-> FALSE] >>

CatalogueInputs ==
  [prefix : 1..Len(CataloguePrefixes),
   space : 1..Len(CatalogueSpaces), mid : 1..Len(CatalogueMids),
   tail : 1..Len(CatalogueTails)]

\* the text an input stands for
CatalogueText(in) ==
  CataloguePrefixes[in.prefix] \o CatalogueSpaces[in.space]
    \o CatalogueMids[in.mid].text \o CatalogueTails[in.tail].text

InitCatalogue ==
  /\ pc = "start"
  /\ op = "none"
  /\ inp \in CatalogueInputs
  /\ out = None
  /\ NoObjects

DoParseCatalogue ==
  /\ pc = "start"
  /\ pc' = "done"
  /\ op' = "parseCatalogue"
  /\ out' = parseCatalogue(CatalogueText(inp))
  /\ UNCHANGED inp
  /\ UNCHANGED objects

\* formatCatalogue of a parsed record
DoFormatCatalogue ==
  LET info == parseCatalogue(CatalogueText(inp))
  IN /\ pc = "start"
     /\ IsSome(info)
     /\ pc' = "done"
     /\ op' = "formatCatalogue"
     /\ out' = [info |-> info.val, text |-> formatCatalogue(info.val)]
     /\ UNCHANGED inp
  /\ UNCHANGED objects

\* parseCatalogue(formatCatalogue(parseCatalogue(t)))
DoRoundTrip ==
  LET info == parseCatalogue(CatalogueText(inp))
  IN /\ pc = "start"
     /\ IsSome(info)
     /\ pc' = "done"
     /\ op' = "roundTrip"
     /\ out' = [info |-> info.val, again |-> parseCatalogue(formatCatalogue(info.val))]
     /\ UNCHANGED inp
  /\ UNCHANGED objects

NextCatalogue == DoParseCatalogue \/ DoFormatCatalogue \/ DoRoundTrip

SpecCatalogue == InitCatalogue /\ [][NextCatalogue]_vars

ParsedCatalogue == pc = "done" /\ op = "parseCatalogue"

\* some pattern of the system table matches the text
SomePatternMatches(t) ==
  \E k \in 1..Len(CATALOGUE_PATTERNS) : RegExpMatch(t, CATALOGUE_PATTERNS[k].pattern).ok

\* the systems whose patterns match the text
MatchingSystems(t) ==
  {CATALOGUE_PATTERNS[k].system :
     k \in {j \in 1..Len(CATALOGUE_PATTERNS) : RegExpMatch(t, CATALOGUE_PATTERNS[j].pattern).ok}}

HasDigit(t) == \E i \in 1..Len(t) : t[i] \in DigitSet

\* C4: parseCatalogue has three outcomes for a text t: a record carrying the
\* system of a matching pattern when a pattern matches trimmed t; a record
\* with only raw = trimmed t when none matches and t holds a digit; null
\* otherwise.  A record without a system has no number and no suffix.
C4_ThreeOutcomes ==
  ParsedCatalogue =>
    LET t == trim(CatalogueText(inp))
    IN /\ SomePatternMatches(t) =>
            /\ IsSome(out) /\ out.val.raw = t
            /\ IsSome(out.val.system) /\ out.val.system.val \in MatchingSystems(t)
       /\ (~SomePatternMatches(t) /\ HasDigit(t)) =>
            out = Some([raw |-> t, system |-> None, number |-> None, suffix |-> None])
       /\ (~SomePatternMatches(t) /\ ~HasDigit(t)) => out = None
       /\ (IsSome(out) /\ out.val.system = None) =>
            (out.val.number = None /\ out.val.suffix = None)

\* C4 witness: a text with a digit and no known system ("Custom 7") has been
\* parsed into a raw-only record.
C4_Witness ==
  /\ ParsedCatalogue
  /\ CataloguePrefixes[inp.prefix] = <<"C", "u", "s", "t", "o", "m">>
  /\ CatalogueMids[inp.mid].text = <<"7">>
  /\ IsSome(out)
  /\ out.val.system = None

\* C5: when parseCatalogue classifies a text as Opus: with the posthumous
\* marker anywhere in the text the suffix is "posth." and the number is
\* absent; otherwise the number is the opus number and the suffix is "No."
\* followed by the sub-number when a No./Nr./comma sub-number follows the
\* opus number, and absent when none does.
C5_OpusFields ==
  (ParsedCatalogue /\ IsSome(out) /\ out.val.system = Some(<<"o", "p">>)) =>
    LET mid == CatalogueMids[inp.mid]
        tail == CatalogueTails[inp.tail]
    IN IF tail.posth
       THEN out.val.suffix = Some(<<"p", "o", "s", "t", "h", ".">>) /\ out.val.number = None
       ELSE /\ mid.num >= 0
            /\ out.val.number = Some(mid.num)
            /\ out.val.suffix =
                 (IF mid.pure /\ tail.sub # <<>> THEN Some(<<"N", "o", ".">> \o tail.sub) ELSE None)

\* C5 witness: an opus text with a number and the posthumous marker
\* ("Op. 7 posth.") has been parsed.
C5_Witness ==
  /\ ParsedCatalogue
  /\ IsSome(out)
  /\ out.val.system = Some(<<"o", "p">>)
  /\ CatalogueMids[inp.mid].num = 7
  /\ CatalogueTails[inp.tail].posth
  /\ out.val.suffix = Some(<<"p", "o", "s", "t", "h", ".">>)

\* C6: for every text that parseCatalogue classifies with a system and a
\* number, parsing the formatted string again yields the same system, number
\* and suffix.
C6_RoundTrip ==
  (pc = "done" /\ op = "roundTrip" /\ IsSome(out.info.system) /\ IsSome(out.info.number)) =>
    /\ IsSome(out.again)
    /\ out.again.val.system = out.info.system
    /\ out.again.val.number = out.info.number
    /\ out.again.val.suffix = out.info.suffix

\* C8: formatCatalogue returns raw exactly when system or number is absent;
\* with both present it returns "<prefix> <suffix>:<number>" for Hoboken,
\* "<prefix> <number> <suffix>" for Opus with a suffix starting with "No",
\* and "<prefix> <number>" directly followed by the suffix otherwise.
C8_FormatCases ==
  (pc = "done" /\ op = "formatCatalogue") =>
    LET info == out.info
        suffix == IF info.suffix = None THEN <<>> ELSE info.suffix.val
    IN IF info.system = None \/ info.number = None
       THEN out.text = info.raw
       ELSE LET prefix == SYSTEM_PREFIXES[info.system.val]
                number == NumberToString(info.number.val)
            IN out.text =
                 (IF info.system.val = <<"h", "o", "b">>
                  THEN prefix \o <<" ">> \o suffix \o <<":">> \o number
                  ELSE IF info.system.val = <<"o", "p">> /\ startsWith(suffix, <<"N", "o">>)
                  THEN prefix \o <<" ">> \o number \o <<" ">> \o suffix
                  ELSE prefix \o <<" ">> \o number \o suffix)

(***************************************************************************)
(* Inputs of compareCatalogues: three CatalogueInfo records whose optional  *)
(* fields are each present or absent.  raw plays no part in the comparison. *)
(***************************************************************************)
MaxNumber == 1

CompareSystems == {None, Some(<<"b", "w", "v">>), Some(<<"o", "p">>)}

CompareNumbers == {None} \cup {Some(n) : n \in 0..MaxNumber}

CompareSuffixes == {None, Some(<<"a">>)}

CompareInfos ==
  [raw : {<<>>}, system : CompareSystems, number : CompareNumbers, suffix : CompareSuffixes]

InitCompare ==
  /\ pc = "start"
  /\ op = "none"
  /\ inp \in [a : CompareInfos, b : CompareInfos, c : CompareInfos]
  /\ out = None
  /\ NoObjects

DoCompare ==
  /\ pc = "start"
  /\ pc' = "done"
  /\ op' = "compareCatalogues"
  /\ out' = [ab |-> compareCatalogues(inp.a, inp.b),
             ba |-> compareCatalogues(inp.b, inp.a),
             bc |-> compareCatalogues(inp.b, inp.c),
             ac |-> compareCatalogues(inp.a, inp.c)]
  /\ UNCHANGED inp
  /\ UNCHANGED objects

NextCompare == DoCompare

SpecCompare == InitCompare /\ [][NextCompare]_vars

Sign(n) == IF n < 0 THEN -1 ELSE IF n > 0 THEN 1 ELSE 0

\* the sort key of a record: system, number with absent = 0, suffix with
\* absent = ""
CompareKey(info) ==
  <<info.system,
    IF info.number = None THEN 0 ELSE info.number.val,
    IF info.suffix = None THEN <<>> ELSE info.suffix.val>>

\* C7: compareCatalogues is a total order on the keys (system, number with
\* absent = 0, suffix with absent = ""): compare(a,b) and compare(b,a) have
\* opposite signs, compare(a,b) <= 0 and compare(b,c) <= 0 imply
\* compare(a,c) <= 0, and compare(a,b) = 0 only for equal keys.
C7_TotalOrder ==
  (pc = "done" /\ op = "compareCatalogues") =>
    /\ Sign(out.ab) = 0 - Sign(out.ba)
    /\ (out.ab <= 0 /\ out.bc <= 0) => out.ac <= 0
    /\ out.ab = 0 => CompareKey(inp.a) = CompareKey(inp.b)

(***************************************************************************)
(* Instrument names.  INSTRUMENT_ALIASES is the alias table, one row per   *)
(* property of the object literal, in source order.                        *)
(***************************************************************************)
INSTRUMENT_ALIASES ==
  <<
     [key |-> <<"p", "i", "a", "n", "o">>, value |-> <<"p", "i", "a", "n", "o">>],
     [key |-> <<"p", "i", "a", "n", "o", "f", "o", "r", "t", "e">>, value |-> <<"p", "i", "a", "n", "o">>],
     [key |-> <<"p", "f">>, value |-> <<"p", "i", "a", "n", "o">>],
     [key |-> <<"p", "f", ".">>, value |-> <<"p", "i", "a", "n", "o">>],
     [key |-> <<"p", "n", "o">>, value |-> <<"p", "i", "a", "n", "o">>],
     [key |-> <<"p", "n", "o", ".">>, value |-> <<"p", "i", "a", "n", "o">>],
     [key |-> <<"k", "l", "a", "v", "i", "e", "r">>, value |-> <<"p", "i", "a", "n", "o">>],
     [key |-> <<"k", "e", "y", "b", "o", "a", "r", "d">>, value |-> <<"p", "i", "a", "n", "o">>],
     [key |-> <<"k", "b", "d">>, value |-> <<"p", "i", "a", "n", "o">>],
     [key |-> <<"f", "o", "r", "t", "e", "p", "i", "a", "n", "o">>, value |-> <<"p", "i", "a", "n", "o">>],
     [key |-> <<"f", "p">>, value |-> <<"p", "i", "a", "n", "o">>],
     [key |-> <<"v", "i", "o", "l", "i", "n">>, value |-> <<"v", "i", "o", "l", "i", "n">>],
     [key |-> <<"v", "i", "o", "l", "i", "n", "s">>, value |-> <<"v", "i", "o", "l", "i", "n">>],
     [key |-> <<"v", "l", "n">>, value |-> <<"v", "i", "o", "l", "i", "n">>],
     [key |-> <<"v", "l", "n", ".">>, value |-> <<"v", "i", "o", "l", "i", "n">>],
     [key |-> <<"v", "n">>, value |-> <<"v", "i", "o", "l", "i", "n">>],
     [key |-> <<"v", "n", ".">>, value |-> <<"v", "i", "o", "l", "i", "n">>],
     [key |-> <<"v", ".">>, value |-> <<"v", "i", "o", "l", "i", "n">>],
     [key |-> <<"v", "i", "o", "l", "i", "n", "o">>, value |-> <<"v", "i", "o", "l", "i", "n">>],
     [key |-> <<"v", "i", "o", "l", "i", "n", "e">>, value |-> <<"v", "i", "o", "l", "i", "n">>],
     [key |-> <<"f", "i", "d", "d", "l", "e">>, value |-> <<"v", "i", "o", "l", "i", "n">>],
     [key |-> <<"v", "i", "o", "l", "a">>, value |-> <<"v", "i", "o", "l", "a">>],
     [key |-> <<"v", "i", "o", "l", "a", "s">>, value |-> <<"v", "i", "o", "l", "a">>],
     [key |-> <<"v", "l", "a">>, value |-> <<"v", "i", "o", "l", "a">>],
     [key |-> <<"v", "l", "a", ".">>, value |-> <<"v", "i", "o", "l", "a">>],
     [key |-> <<"v", "a">>, value |-> <<"v", "i", "o", "l", "a">>],
     [key |-> <<"v", "a", ".">>, value |-> <<"v", "i", "o", "l", "a">>],
     [key |-> <<"a", "l", "t", "o", " ", "(", "i", "n", "s", "t", "r", "u", "m", "e", "n", "t", ")">>, value |-> <<"v", "i", "o", "l", "a">>],
     [key |-> <<"b", "r", "a", "t", "s", "c", "h", "e">>, value |-> <<"v", "i", "o", "l", "a">>],
     [key |-> <<"c", "e", "l", "l", "o">>, value |-> <<"c", "e", "l", "l", "o">>],
     [key |-> <<"c", "e", "l", "l", "o", "s">>, value |-> <<"c", "e", "l", "l", "o">>],
     [key |-> <<"v", "i", "o", "l", "o", "n", "c", "e", "l", "l", "o">>, value |-> <<"c", "e", "l", "l", "o">>],
     [key |-> <<"v", "c">>, value |-> <<"c", "e", "l", "l", "o">>],
     [key |-> <<"v", "c", ".">>, value |-> <<"c", "e", "l", "l", "o">>],
     [key |-> <<"v", "l", "c">>, value |-> <<"c", "e", "l", "l", "o">>],
     [key |-> <<"v", "l", "c", ".">>, value |-> <<"c", "e", "l", "l", "o">>],
     [key |-> <<"d", "o", "u", "b", "l", "e", " ", "b", "a", "s", "s">>, value |-> <<"d", "o", "u", "b", "l", "e", "-", "b", "a", "s", "s">>],
     [key |-> <<"d", "o", "u", "b", "l", "e", "-", "b", "a", "s", "s">>, value |-> <<"d", "o", "u", "b", "l", "e", "-", "b", "a", "s", "s">>],
     [key |-> <<"d", "o", "u", "b", "l", "e", "b", "a", "s", "s">>, value |-> <<"d", "o", "u", "b", "l", "e", "-", "b", "a", "s", "s">>],
     [key |-> <<"c", "o", "n", "t", "r", "a", "b", "a", "s", "s">>, value |-> <<"d", "o", "u", "b", "l", "e", "-", "b", "a", "s", "s">>],
     [key |-> <<"b", "a", "s", "s">>, value |-> <<"d", "o", "u", "b", "l", "e", "-", "b", "a", "s", "s">>],
     [key |-> <<"c", "b">>, value |-> <<"d", "o", "u", "b", "l", "e", "-", "b", "a", "s", "s">>],
     [key |-> <<"c", "b", ".">>, value |-> <<"d", "o", "u", "b", "l", "e", "-", "b", "a", "s", "s">>],
     [key |-> <<"d", "b">>, value |-> <<"d", "o", "u", "b", "l", "e", "-", "b", "a", "s", "s">>],
     [key |-> <<"d", "b", ".">>, value |-> <<"d", "o", "u", "b", "l", "e", "-", "b", "a", "s", "s">>],
     [key |-> <<"k", "o", "n", "t", "r", "a", "b", "a", "s", "s">>, value |-> <<"d", "o", "u", "b", "l", "e", "-", "b", "a", "s", "s">>],
     [key |-> <<"f", "l", "u", "t", "e">>, value |-> <<"f", "l", "u", "t", "e">>],
     [key |-> <<"f", "l", "u", "t", "e", "s">>, value |-> <<"f", "l", "u", "t", "e">>],
     [key |-> <<"f", "l">>, value |-> <<"f", "l", "u", "t", "e">>],
     [key |-> <<"f", "l", ".">>, value |-> <<"f", "l", "u", "t", "e">>],
     [key |-> <<"f", "l", "a", "u", "t", "o">>, value |-> <<"f", "l", "u", "t", "e">>],
     [key |-> <<"f", "l", "a", "u", "t", "i">>, value |-> <<"f", "l", "u", "t", "e">>],
     [key |-> <<"f", "l", "ö", "t", "e">>, value |-> <<"f", "l", "u", "t", "e">>],
     [key |-> <<"p", "i", "c", "c", "o", "l", "o">>, value |-> <<"f", "l", "u", "t", "e">>],
     [key |-> <<"o", "b", "o", "e">>, value |-> <<"o", "b", "o", "e">>],
     [key |-> <<"o", "b", "o", "e", "s">>, value |-> <<"o", "b", "o", "e">>],
     [key |-> <<"o", "b">>, value |-> <<"o", "b", "o", "e">>],
     [key |-> <<"o", "b", ".">>, value |-> <<"o", "b", "o", "e">>],
     [key |-> <<"o", "b", "o", "i">>, value |-> <<"o", "b", "o", "e">>],
     [key |-> <<"h", "a", "u", "t", "b", "o", "i", "s">>, value |-> <<"o", "b", "o", "e">>],
     [key |-> <<"e", "n", "g", "l", "i", "s", "h", " ", "h", "o", "r", "n">>, value |-> <<"o", "b", "o", "e">>],
     [key |-> <<"c", "o", "r", " ", "a", "n", "g", "l", "a", "i", "s">>, value |-> <<"o", "b", "o", "e">>],
     [key |-> <<"c", "l", "a", "r", "i", "n", "e", "t">>, value |-> <<"c", "l", "a", "r", "i", "n", "e", "t">>],
     [key |-> <<"c", "l", "a", "r", "i", "n", "e", "t", "s">>, value |-> <<"c", "l", "a", "r", "i", "n", "e", "t">>],
     [key |-> <<"c", "l">>, value |-> <<"c", "l", "a", "r", "i", "n", "e", "t">>],
     [key |-> <<"c", "l", ".">>, value |-> <<"c", "l", "a", "r", "i", "n", "e", "t">>],
     [key |-> <<"c", "l", "a", "r">>, value |-> <<"c", "l", "a", "r", "i", "n", "e", "t">>],
     [key |-> <<"c", "l", "a", "r", ".">>, value |-> <<"c", "l", "a", "r", "i", "n", "e", "t">>],
     [key |-> <<"c", "l", "a", "r", "i", "n", "e", "t", "t", "o">>, value |-> <<"c", "l", "a", "r", "i", "n", "e", "t">>],
     [key |-> <<"k", "l", "a", "r", "i", "n", "e", "t", "t", "e">>, value |-> <<"c", "l", "a", "r", "i", "n", "e", "t">>],
     [key |-> <<"b", "a", "s", "s", " ", "c", "l", "a", "r", "i", "n", "e", "t">>, value |-> <<"c", "l", "a", "r", "i", "n", "e", "t">>],
     [key |-> <<"b", "a", "s", "s", "o", "o", "n">>, value |-> <<"b", "a", "s", "s", "o", "o", "n">>],
     [key |-> <<"b", "a", "s", "s", "o", "o", "n", "s">>, value |-> <<"b", "a", "s", "s", "o", "o", "n">>],
     [key |-> <<"b", "s", "n">>, value |-> <<"b", "a", "s", "s", "o", "o", "n">>],
     [key |-> <<"b", "s", "n", ".">>, value |-> <<"b", "a", "s", "s", "o", "o", "n">>],
     [key |-> <<"b", "n">>, value |-> <<"b", "a", "s", "s", "o", "o", "n">>],
     [key |-> <<"b", "n", ".">>, value |-> <<"b", "a", "s", "s", "o", "o", "n">>],
     [key |-> <<"f", "a", "g", "o", "t", "t">>, value |-> <<"b", "a", "s", "s", "o", "o", "n">>],
     [key |-> <<"f", "a", "g", "o", "t", "t", "o">>, value |-> <<"b", "a", "s", "s", "o", "o", "n">>],
     [key |-> <<"c", "o", "n", "t", "r", "a", "b", "a", "s", "s", "o", "o", "n">>, value |-> <<"b", "a", "s", "s", "o", "o", "n">>],
     [key |-> <<"c", "o", "n", "t", "r", "a", "f", "a", "g", "o", "t", "t", "o">>, value |-> <<"b", "a", "s", "s", "o", "o", "n">>],
     [key |-> <<"h", "o", "r", "n">>, value |-> <<"h", "o", "r", "n">>],
     [key |-> <<"h", "o", "r", "n", "s">>, value |-> <<"h", "o", "r", "n">>],
     [key |-> <<"h", "n">>, value |-> <<"h", "o", "r", "n">>],
     [key |-> <<"h", "n", ".">>, value |-> <<"h", "o", "r", "n">>],
     [key |-> <<"h", "r">>, value |-> <<"h", "o", "r", "n">>],
     [key |-> <<"h", "r", ".">>, value |-> <<"h", "o", "r", "n">>],
     [key |-> <<"c", "o", "r">>, value |-> <<"h", "o", "r", "n">>],
     [key |-> <<"c", "o", "r", "n", "o">>, value |-> <<"h", "o", "r", "n">>],
     [key |-> <<"c", "o", "r", "n", "i">>, value |-> <<"h", "o", "r", "n">>],
     [key |-> <<"f", "r", "e", "n", "c", "h", " ", "h", "o", "r", "n">>, value |-> <<"h", "o", "r", "n">>],
     [key |-> <<"w", "a", "l", "d", "h", "o", "r", "n">>, value |-> <<"h", "o", "r", "n">>],
     [key |-> <<"t", "r", "u", "m", "p", "e", "t">>, value |-> <<"t", "r", "u", "m", "p", "e", "t">>],
     [key |-> <<"t", "r", "u", "m", "p", "e", "t", "s">>, value |-> <<"t", "r", "u", "m", "p", "e", "t">>],
     [key |-> <<"t", "p", "t">>, value |-> <<"t", "r", "u", "m", "p", "e", "t">>],
     [key |-> <<"t", "p", "t", ".">>, value |-> <<"t", "r", "u", "m", "p", "e", "t">>],
     [key |-> <<"t", "r">>, value |-> <<"t", "r", "u", "m", "p", "e", "t">>],
     [key |-> <<"t", "r", ".">>, value |-> <<"t", "r", "u", "m", "p", "e", "t">>],
     [key |-> <<"t", "r", "p">>, value |-> <<"t", "r", "u", "m", "p", "e", "t">>],
     [key |-> <<"t", "r", "o", "m", "b", "a">>, value |-> <<"t", "r", "u", "m", "p", "e", "t">>],
     [key |-> <<"t", "r", "o", "m", "b", "e">>, value |-> <<"t", "r", "u", "m", "p", "e", "t">>],
     [key |-> <<"t", "r", "o", "m", "p", "e", "t", "e">>, value |-> <<"t", "r", "u", "m", "p", "e", "t">>],
     [key |-> <<"c", "o", "r", "n", "e", "t">>, value |-> <<"t", "r", "u", "m", "p", "e", "t">>],
     [key |-> <<"t", "r", "o", "m", "b", "o", "n", "e">>, value |-> <<"t", "r", "o", "m", "b", "o", "n", "e">>],
     [key |-> <<"t", "r", "o", "m", "b", "o", "n", "e", "s">>, value |-> <<"t", "r", "o", "m", "b", "o", "n", "e">>],
     [key |-> <<"t", "r", "b">>, value |-> <<"t", "r", "o", "m", "b", "o", "n", "e">>],
     [key |-> <<"t", "r", "b", ".">>, value |-> <<"t", "r", "o", "m", "b", "o", "n", "e">>],
     [key |-> <<"t", "b", "n">>, value |-> <<"t", "r", "o", "m", "b", "o", "n", "e">>],
     [key |-> <<"t", "b", "n", ".">>, value |-> <<"t", "r", "o", "m", "b", "o", "n", "e">>],
     [key |-> <<"p", "o", "s", "a", "u", "n", "e">>, value |-> <<"t", "r", "o", "m", "b", "o", "n", "e">>],
     [key |-> <<"b", "a", "s", "s", " ", "t", "r", "o", "m", "b", "o", "n", "e">>, value |-> <<"t", "r", "o", "m", "b", "o", "n", "e">>],
     [key |-> <<"t", "u", "b", "a">>, value |-> <<"t", "u", "b", "a">>],
     [key |-> <<"t", "u", "b", "a", "s">>, value |-> <<"t", "u", "b", "a">>],
     [key |-> <<"t", "b">>, value |-> <<"t", "u", "b", "a">>],
     [key |-> <<"t", "b", ".">>, value |-> <<"t", "u", "b", "a">>],
     [key |-> <<"e", "u", "p", "h", "o", "n", "i", "u", "m">>, value |-> <<"t", "u", "b", "a">>],
     [key |-> <<"b", "a", "r", "i", "t", "o", "n", "e", " ", "h", "o", "r", "n">>, value |-> <<"t", "u", "b", "a">>],
     [key |-> <<"s", "o", "u", "s", "a", "p", "h", "o", "n", "e">>, value |-> <<"t", "u", "b", "a">>],
     [key |-> <<"v", "o", "i", "c", "e">>, value |-> <<"v", "o", "i", "c", "e">>],
     [key |-> <<"v", "o", "i", "c", "e", "s">>, value |-> <<"v", "o", "i", "c", "e">>],
     [key |-> <<"v", "o", "c", "a", "l">>, value |-> <<"v", "o", "i", "c", "e">>],
     [key |-> <<"v", "o", "c", "a", "l", "s">>, value |-> <<"v", "o", "i", "c", "e">>],
     [key |-> <<"v">>, value |-> <<"v", "o", "i", "c", "e">>],
     [key |-> <<"s", "o", "p", "r", "a", "n", "o">>, value |-> <<"v", "o", "i", "c", "e">>],
     [key |-> <<"m", "e", "z", "z", "o">>, value |-> <<"v", "o", "i", "c", "e">>],
     [key |-> <<"m", "e", "z", "z", "o", "-", "s", "o", "p", "r", "a", "n", "o">>, value |-> <<"v", "o", "i", "c", "e">>],
     [key |-> <<"a", "l", "t", "o">>, value |-> <<"v", "o", "i", "c", "e">>],
     [key |-> <<"c", "o", "n", "t", "r", "a", "l", "t", "o">>, value |-> <<"v", "o", "i", "c", "e">>],
     [key |-> <<"t", "e", "n", "o", "r">>, value |-> <<"v", "o", "i", "c", "e">>],
     [key |-> <<"b", "a", "r", "i", "t", "o", "n", "e">>, value |-> <<"v", "o", "i", "c", "e">>],
     [key |-> <<"b", "a", "s", "s", " ", "v", "o", "i", "c", "e">>, value |-> <<"v", "o", "i", "c", "e">>],
     [key |-> <<"s", "i", "n", "g", "e", "r">>, value |-> <<"v", "o", "i", "c", "e">>],
     [key |-> <<"v", "o", "c", "e">>, value |-> <<"v", "o", "i", "c", "e">>],
     [key |-> <<"v", "o", "c", "i">>, value |-> <<"v", "o", "i", "c", "e">>],
     [key |-> <<"o", "r", "g", "a", "n">>, value |-> <<"o", "r", "g", "a", "n">>],
     [key |-> <<"o", "r", "g", "a", "n", "s">>, value |-> <<"o", "r", "g", "a", "n">>],
     [key |-> <<"o", "r", "g">>, value |-> <<"o", "r", "g", "a", "n">>],
     [key |-> <<"o", "r", "g", ".">>, value |-> <<"o", "r", "g", "a", "n">>],
     [key |-> <<"o", "r", "g", "e", "l">>, value |-> <<"o", "r", "g", "a", "n">>],
     [key |-> <<"o", "r", "g", "a", "n", "o">>, value |-> <<"o", "r", "g", "a", "n">>],
     [key |-> <<"p", "i", "p", "e", " ", "o", "r", "g", "a", "n">>, value |-> <<"o", "r", "g", "a", "n">>],
     [key |-> <<"h", "a", "r", "m", "o", "n", "i", "u", "m">>, value |-> <<"o", "r", "g", "a", "n">>],
     [key |-> <<"g", "u", "i", "t", "a", "r">>, value |-> <<"g", "u", "i", "t", "a", "r">>],
     [key |-> <<"g", "u", "i", "t", "a", "r", "s">>, value |-> <<"g", "u", "i", "t", "a", "r">>],
     [key |-> <<"g", "t", "r">>, value |-> <<"g", "u", "i", "t", "a", "r">>],
     [key |-> <<"g", "t", "r", ".">>, value |-> <<"g", "u", "i", "t", "a", "r">>],
     [key |-> <<"g", "i", "t">>, value |-> <<"g", "u", "i", "t", "a", "r">>],
     [key |-> <<"g", "i", "t", ".">>, value |-> <<"g", "u", "i", "t", "a", "r">>],
     [key |-> <<"g", "i", "t", "a", "r", "r", "e">>, value |-> <<"g", "u", "i", "t", "a", "r">>],
     [key |-> <<"c", "h", "i", "t", "a", "r", "r", "a">>, value |-> <<"g", "u", "i", "t", "a", "r">>],
     [key |-> <<"l", "u", "t", "e">>, value |-> <<"g", "u", "i", "t", "a", "r">>],
     [key |-> <<"c", "l", "a", "s", "s", "i", "c", "a", "l", " ", "g", "u", "i", "t", "a", "r">>, value |-> <<"g", "u", "i", "t", "a", "r">>],
     [key |-> <<"h", "a", "r", "p">>, value |-> <<"h", "a", "r", "p">>],
     [key |-> <<"h", "a", "r", "p", "s">>, value |-> <<"h", "a", "r", "p">>],
     [key |-> <<"h", "p">>, value |-> <<"h", "a", "r", "p">>],
     [key |-> <<"h", "p", ".">>, value |-> <<"h", "a", "r", "p">>],
     [key |-> <<"a", "r", "p", "a">>, value |-> <<"h", "a", "r", "p">>],
     [key |-> <<"h", "a", "r", "f", "e">>, value |-> <<"h", "a", "r", "p">>],
     [key |-> <<"o", "r", "c", "h", "e", "s", "t", "r", "a">>, value |-> <<"o", "r", "c", "h", "e", "s", "t", "r", "a">>],
     [key |-> <<"o", "r", "c", "h">>, value |-> <<"o", "r", "c", "h", "e", "s", "t", "r", "a">>],
     [key |-> <<"o", "r", "c", "h", ".">>, value |-> <<"o", "r", "c", "h", "e", "s", "t", "r", "a">>],
     [key |-> <<"o", "r", "c", "h", "e", "s", "t", "r", "a", "l">>, value |-> <<"o", "r", "c", "h", "e", "s", "t", "r", "a">>],
     [key |-> <<"s", "y", "m", "p", "h", "o", "n", "i", "c">>, value |-> <<"o", "r", "c", "h", "e", "s", "t", "r", "a">>],
     [key |-> <<"s", "y", "m", "p", "h", "o", "n", "y", " ", "o", "r", "c", "h", "e", "s", "t", "r", "a">>, value |-> <<"o", "r", "c", "h", "e", "s", "t", "r", "a">>],
     [key |-> <<"f", "u", "l", "l", " ", "o", "r", "c", "h", "e", "s", "t", "r", "a">>, value |-> <<"o", "r", "c", "h", "e", "s", "t", "r", "a">>],
     [key |-> <<"o", "r", "c", "h", "e", "s", "t", "e", "r">>, value |-> <<"o", "r", "c", "h", "e", "s", "t", "r", "a">>],
     [key |-> <<"c", "h", "a", "m", "b", "e", "r", " ", "e", "n", "s", "e", "m", "b", "l", "e">>, value |-> <<"c", "h", "a", "m", "b", "e", "r", "-", "e", "n", "s", "e", "m", "b", "l", "e">>],
     [key |-> <<"c", "h", "a", "m", "b", "e", "r", "-", "e", "n", "s", "e", "m", "b", "l", "e">>, value |-> <<"c", "h", "a", "m", "b", "e", "r", "-", "e", "n", "s", "e", "m", "b", "l", "e">>],
     [key |-> <<"e", "n", "s", "e", "m", "b", "l", "e">>, value |-> <<"c", "h", "a", "m", "b", "e", "r", "-", "e", "n", "s", "e", "m", "b", "l", "e">>],
     [key |-> <<"c", "h", "a", "m", "b", "e", "r">>, value |-> <<"c", "h", "a", "m", "b", "e", "r", "-", "e", "n", "s", "e", "m", "b", "l", "e">>],
     [key |-> <<"s", "t", "r", "i", "n", "g", " ", "q", "u", "a", "r", "t", "e", "t">>, value |-> <<"c", "h", "a", "m", "b", "e", "r", "-", "e", "n", "s", "e", "m", "b", "l", "e">>],
     [key |-> <<"p", "i", "a", "n", "o", " ", "t", "r", "i", "o">>, value |-> <<"c", "h", "a", "m", "b", "e", "r", "-", "e", "n", "s", "e", "m", "b", "l", "e">>],
     [key |-> <<"w", "i", "n", "d", " ", "q", "u", "i", "n", "t", "e", "t">>, value |-> <<"c", "h", "a", "m", "b", "e", "r", "-", "e", "n", "s", "e", "m", "b", "l", "e">>],
     [key |-> <<"b", "r", "a", "s", "s", " ", "q", "u", "i", "n", "t", "e", "t">>, value |-> <<"c", "h", "a", "m", "b", "e", "r", "-", "e", "n", "s", "e", "m", "b", "l", "e">>],
     [key |-> <<"q", "u", "a", "r", "t", "e", "t">>, value |-> <<"c", "h", "a", "m", "b", "e", "r", "-", "e", "n", "s", "e", "m", "b", "l", "e">>],
     [key |-> <<"q", "u", "i", "n", "t", "e", "t">>, value |-> <<"c", "h", "a", "m", "b", "e", "r", "-", "e", "n", "s", "e", "m", "b", "l", "e">>],
     [key |-> <<"t", "r", "i", "o">>, value |-> <<"c", "h", "a", "m", "b", "e", "r", "-", "e", "n", "s", "e", "m", "b", "l", "e">>],
     [key |-> <<"d", "u", "e", "t">>, value |-> <<"c", "h", "a", "m", "b", "e", "r", "-", "e", "n", "s", "e", "m", "b", "l", "e">>],
     [key |-> <<"d", "u", "o">>, value |-> <<"c", "h", "a", "m", "b", "e", "r", "-", "e", "n", "s", "e", "m", "b", "l", "e">>],
     [key |-> <<"c", "h", "o", "i", "r">>, value |-> <<"c", "h", "o", "i", "r">>],
     [key |-> <<"c", "h", "o", "i", "r", "s">>, value |-> <<"c", "h", "o", "i", "r">>],
     [key |-> <<"c", "h", "o", "r", "u", "s">>, value |-> <<"c", "h", "o", "i", "r">>],
     [key |-> <<"c", "h", "o", "r", "a", "l">>, value |-> <<"c", "h", "o", "i", "r">>],
     [key |-> <<"c", "h", "o", "r">>, value |-> <<"c", "h", "o", "i", "r">>],
     [key |-> <<"c", "o", "r", "o">>, value |-> <<"c", "h", "o", "i", "r">>],
     [key |-> <<"s", "a", "t", "b">>, value |-> <<"c", "h", "o", "i", "r">>],
     [key |-> <<"m", "i", "x", "e", "d", " ", "c", "h", "o", "i", "r">>, value |-> <<"c", "h", "o", "i", "r">>],
     [key |-> <<"m", "e", "n", "'", "s", " ", "c", "h", "o", "i", "r">>, value |-> <<"c", "h", "o", "i", "r">>],
     [key |-> <<"w", "o", "m", "e", "n", "'", "s", " ", "c", "h", "o", "i", "r">>, value |-> <<"c", "h", "o", "i", "r">>],
     [key |-> <<"c", "h", "i", "l", "d", "r", "e", "n", "'", "s", " ", "c", "h", "o", "i", "r">>, value |-> <<"c", "h", "o", "i", "r">>] >>

\* The properties every object literal inherits from Object.prototype, each
\* with the text the inherited value prints as: none of them is a string.
OBJECT_PROTOTYPE ==
  << [key |-> <<"c", "o", "n", "s", "t", "r", "u", "c", "t", "o", "r">>, value |-> <<"[Function: Object]">>],
     [key |-> <<"_", "_", "p", "r", "o", "t", "o", "_", "_">>, value |-> <<"[Object: null prototype] {}">>],
     [key |-> <<"h", "a", "s", "O", "w", "n", "P", "r", "o", "p", "e", "r", "t", "y">>, value |-> <<"[Function: hasOwnProperty]">>],
     [key |-> <<"i", "s", "P", "r", "o", "t", "o", "t", "y", "p", "e", "O", "f">>, value |-> <<"[Function: isPrototypeOf]">>],
     [key |-> <<"p", "r", "o", "p", "e", "r", "t", "y", "I", "s", "E", "n", "u", "m", "e", "r", "a", "b", "l", "e">>, value |-> <<"[Function: propertyIsEnumerable]">>],
     [key |-> <<"t", "o", "L", "o", "c", "a", "l", "e", "S", "t", "r", "i", "n", "g">>, value |-> <<"[Function: toLocaleString]">>],
     [key |-> <<"t", "o", "S", "t", "r", "i", "n", "g">>, value |-> <<"[Function: toString]">>],
     [key |-> <<"v", "a", "l", "u", "e", "O", "f">>, value |-> <<"[Function: valueOf]">>] >>

\* table[key] on an object literal: the own property, else the inherited
\* one, else undefined
PropertyOf(table, key) ==
  LET hit(rows) == {i \in 1..Len(rows) : rows[i].key = key}
  IN IF hit(table) # {} THEN Some(table[CHOOSE i \in hit(table) : TRUE].value)
     ELSE IF hit(OBJECT_PROTOTYPE) # {}
     THEN Some(OBJECT_PROTOTYPE[CHOOSE i \in hit(OBJECT_PROTOTYPE) : TRUE].value)
     ELSE None

normalizeInstrument(raw) ==
  IF raw = <<>> THEN raw
  ELSE
    LET normalized == trim(toLowerCase(raw))
        withoutPeriod == IF endsWith(normalized, <<".">>)
                         THEN SubSeq(normalized, 1, Len(normalized) - 1)
                         ELSE normalized
        dropS == SubSeq(normalized, 1, Len(normalized) - 1)
        dropEs == SubSeq(normalized, 1, Len(normalized) - 2)
    IN IF IsSome(PropertyOf(INSTRUMENT_ALIASES, normalized))
       THEN PropertyOf(INSTRUMENT_ALIASES, normalized).val
       ELSE IF IsSome(PropertyOf(INSTRUMENT_ALIASES, withoutPeriod))
       THEN PropertyOf(INSTRUMENT_ALIASES, withoutPeriod).val
       ELSE IF /\ endsWith(normalized, <<"s">>) /\ Len(normalized) > 2
               /\ IsSome(PropertyOf(INSTRUMENT_ALIASES, dropS))
       THEN PropertyOf(INSTRUMENT_ALIASES, dropS).val
       ELSE IF /\ endsWith(normalized, <<"e", "s">>) /\ Len(normalized) > 3
               /\ IsSome(PropertyOf(INSTRUMENT_ALIASES, dropEs))
       THEN PropertyOf(INSTRUMENT_ALIASES, dropEs).val
       ELSE trim(raw)

(***************************************************************************)
(* Inputs of normalizeInstrument: a token (a key of the alias table or one *)
(* of the other tokens below), as written or in upper case, followed by an *)
(* ending and optionally surrounded by blanks.                             *)
(***************************************************************************)
OtherTokens ==
  << <<"t", "h", "e", "r", "e", "m", "i", "n">>, <<"K", "a", "z", "o", "o">>, <<"c", "o", "n", "s", "t", "r", "u", "c", "t", "o", "r">>, <<"_", "_", "p", "r", "o", "t", "o", "_", "_">>, <<"t", "o", "S", "t", "r", "i", "n", "g">>,
     <<"s">>, <<"x">>, <<>> >>

InstrumentTokens ==
  [i \in 1..Len(INSTRUMENT_ALIASES) |-> INSTRUMENT_ALIASES[i].key] \o OtherTokens

InstrumentEndings == << <<>>, <<".">>, <<"s">>, <<"e", "s">> >>

InstrumentPads == << <<>>, <<" ">> >>

InstrumentInputs ==
  [token : 1..Len(InstrumentTokens), upper : BOOLEAN,
   ending : 1..Len(InstrumentEndings), pad : 1..Len(InstrumentPads)]

InstrumentText(in) ==
  LET word == InstrumentTokens[in.token] \o InstrumentEndings[in.ending]
  IN InstrumentPads[in.pad] \o (IF in.upper THEN toUpperCase(word) ELSE word)
       \o InstrumentPads[in.pad]

InitInstrument ==
  /\ pc = "start"
  /\ op = "none"
  /\ inp \in InstrumentInputs
  /\ out = None
  /\ NoObjects

DoNormalizeInstrument ==
  /\ pc = "start"
  /\ pc' = "done"
  /\ op' = "normalizeInstrument"
  /\ out' = normalizeInstrument(InstrumentText(inp))
  /\ UNCHANGED inp
  /\ UNCHANGED objects

NextInstrument == DoNormalizeInstrument

SpecInstrument == InitInstrument /\ [][NextInstrument]_vars

Normalized == pc = "done" /\ op = "normalizeInstrument"

\* the value the alias table itself gives a key, if any
AliasOf(key) ==
  LET hit == {i \in 1..Len(INSTRUMENT_ALIASES) : INSTRUMENT_ALIASES[i].key = key}
  IN IF hit = {} THEN None ELSE Some(INSTRUMENT_ALIASES[CHOOSE i \in hit : TRUE].value)

\* the texts looked up for a folded text, in order: the text, the text less
\* one trailing period, less a trailing "s" (text longer than 2), less a
\* trailing "es" (text longer than 3)
LookupTexts(t) ==
  << t >>
  \o (IF endsWith(t, <<".">>) THEN << SubSeq(t, 1, Len(t) - 1) >> ELSE << t >>)
  \o (IF endsWith(t, <<"s">>) /\ Len(t) > 2 THEN << SubSeq(t, 1, Len(t) - 1) >> ELSE << >>)
  \o (IF endsWith(t, <<"e", "s">>) /\ Len(t) > 3 THEN << SubSeq(t, 1, Len(t) - 2) >> ELSE << >>)

\* C9: normalizeInstrument returns the alias-table value of the first hit
\* among the lookups of the folded and trimmed text (as is, less a trailing
\* period, less a trailing "s", less a trailing "es"), and the original text
\* trimmed, in its own letter case, when all of them miss; an alias-table key
\* maps to its canonical name in any letter case and with surrounding blanks.
C9_FourLookups ==
  Normalized =>
    LET raw == InstrumentText(inp)
        texts == LookupTexts(trim(toLowerCase(raw)))
        hits == {i \in 1..Len(texts) : IsSome(AliasOf(texts[i]))}
    IN /\ IF hits = {}
          THEN out = trim(raw)
          ELSE out = AliasOf(texts[CHOOSE i \in hits : \A j \in hits : i <= j]).val
       /\ (inp.token <= Len(INSTRUMENT_ALIASES) /\ inp.ending = 1) =>
            out = INSTRUMENT_ALIASES[inp.token].value

(***************************************************************************)
(* parseYear and parseYearRange.                                           *)
(***************************************************************************)
\* the one-character string U+2013 (en dash), written as an atom
EnDash == "u2013"

YEAR_PATTERNS ==
  LET sp == <<Star(<<Ch(WhiteSpace)>>)>>
      digit == <<Ch(DigitSet)>>
      year(n) == <<Grp(n, digit \o digit \o digit \o digit)>>
  IN [ \* /(\d+)(?:st|nd|rd|th)\s*century/i
       century |-> <<Grp(1, Plus(digit))>>
                   \o <<Alt(LitI(<<"s", "t">>), <<Alt(LitI(<<"n", "d">>), <<Alt(LitI(<<"r", "d">>), LitI(<<"t", "h">>))>>)>>)>>
                   \o sp \o LitI(<<"c", "e", "n", "t", "u", "r", "y">>),
       \* /\b(\d{4})\b/
       year |-> <<WordB>> \o year(1) \o <<WordB>>,
       \* /(\d{4})\s*[-\u2013]\s*(\d{4})/
       range |-> year(1) \o sp \o <<Ch({"-", EnDash})>> \o sp \o year(2) ]

parseYear(text) ==
  LET trimmed == trim(text)
      \* /^\d+$/.test(trimmed)
      AllDigits == trimmed # <<>> /\ \A i \in 1..Len(trimmed) : trimmed[i] \in DigitSet
      \* year > 0 && year < 3000
      InYearRange(year) == year > 0 /\ year < 3000
      centuryMatch == RegExpMatch(trimmed, YEAR_PATTERNS.century)
      match == RegExpMatch(trimmed, YEAR_PATTERNS.year)
  IN IF text = <<>> THEN None
     ELSE IF centuryMatch.ok
     THEN Some((parseInt(centuryMatch.caps[1].val) - 1) * 100 + 50)
     ELSE IF AllDigits /\ InYearRange(parseInt(trimmed))
     THEN Some(parseInt(trimmed))
     ELSE IF match.ok /\ InYearRange(parseInt(match.caps[1].val))
     THEN Some(parseInt(match.caps[1].val))
     ELSE None

\* a mutant: the single year is looked for before the range
parseYearRange_YearFirst(text) ==
  IF text = <<>> THEN [start |-> None, end |-> None]
  ELSE [start |-> parseYear(text), end |-> None]

\* the result {start?, end?}, an absent field being None
parseYearRange(text) ==
  LET rangeMatch == RegExpMatch(text, YEAR_PATTERNS.range)
      year == parseYear(text)
  IN IF text = <<>> THEN [start |-> None, end |-> None]
     ELSE IF rangeMatch.ok
     THEN [start |-> Some(parseInt(rangeMatch.caps[1].val)),
           end |-> Some(parseInt(rangeMatch.caps[2].val))]
     ELSE IF IsSome(year) /\ year.val # 0
     THEN [start |-> year, end |-> None]
     ELSE [start |-> None, end |-> None]

(***************************************************************************)
(* Response builders: the name of a composer and the title of a work, each *)
(* taken from the page's template or derived from the slug.                *)
(***************************************************************************)
\* a mutant: the first template whose name starts with the name asked
findTemplate_PrefixFirst(wikitext, templateName) ==
  LET lowerName == toLowerCase(templateName)
      find(templates) ==
        LET prefixed == {i \in 1..Len(templates) :
                           startsWith(toLowerCase(templates[i].name), lowerName)}
        IN IF prefixed # {}
           THEN Some(templates[CHOOSE i \in prefixed : \A j \in prefixed : i <= j])
           ELSE None
  IN CHOOSE r \in {find(templates) : templates \in {extractTemplates(wikitext)}} : TRUE

\* (the CHOOSE over a one-element set computes the list of templates once)
findTemplate(wikitext, templateName) ==
  LET lowerName == toLowerCase(templateName)
      first(S) == CHOOSE i \in S : \A j \in S : i <= j
      find(templates) ==
        LET exact == {i \in 1..Len(templates) : toLowerCase(templates[i].name) = lowerName}
            prefixed == {i \in 1..Len(templates) :
                           startsWith(toLowerCase(templates[i].name), lowerName)}
        IN IF exact # {} THEN Some(templates[first(exact)])
           ELSE IF prefixed # {} THEN Some(templates[first(prefixed)])
           ELSE None
  IN CHOOSE r \in {find(templates) : templates \in {extractTemplates(wikitext)}} : TRUE

\* template?.params ?? {}
ParamsOf(template) == IF IsSome(template) THEN template.val.params ELSE <<>>

\* params[k1] ?? params[k2] ?? ... ?? '' : the value of the first key the
\* template has, empty or not
FirstParam(params, keys) ==
  LET has == {i \in 1..Len(keys) : HasParam(params, keys[i])}
  IN IF has = {} THEN <<>> ELSE params[keys[CHOOSE i \in has : \A j \in has : i <= j]]

\* s.replace(/_/g, ' ')
Unslug(s) == [i \in 1..Len(s) |-> IF s[i] = "_" THEN " " ELSE s[i]]

\* s.split(',')
RECURSIVE SplitComma(_, _, _)
SplitComma(s, i, current) ==
  IF i > Len(s) THEN <<current>>
  ELSE IF s[i] = "," THEN <<current>> \o SplitComma(s, i + 1, <<>>)
  ELSE SplitComma(s, i + 1, Append(current, s[i]))

RECURSIVE JoinComma(_)
JoinComma(parts) ==
  IF Len(parts) = 0 THEN <<>>
  ELSE IF Len(parts) = 1 THEN parts[1]
  ELSE parts[1] \o <<",", " ">> \o JoinComma(Tail(parts))

formatSlugAsName(slug) ==
  LET split == SplitComma(Unslug(slug), 1, <<>>)
      parts == [i \in 1..Len(split) |-> trim(split[i])]
  IN IF slug = <<>> THEN <<>>
     ELSE IF Len(parts) = 2 THEN parts[2] \o <<" ">> \o parts[1]
     ELSE JoinComma(parts)

\* s.replace(/\s*\([^)]+\)\s*$/, ''): the leftmost "(" that is followed by
\* one or more characters other than ")", then ")", then blanks up to the
\* end, is removed together with the blanks before it and all that follows
StripComposerSuffix(s) ==
  LET e == TrimEnd(s)
      opens == {p \in 1..Len(e) :
                  /\ e[p] = "("
                  /\ e[Len(e)] = ")"
                  /\ p + 1 < Len(e)
                  /\ \A q \in (p + 1)..(Len(e) - 1) : e[q] # ")"}
      p0 == CHOOSE p \in opens : \A q \in opens : p <= q
  IN IF opens = {} THEN s ELSE TrimEnd(SubSeq(e, 1, p0 - 1))

formatSlugAsTitle(slug) ==
  IF slug = <<>> THEN <<>> ELSE trim(StripComposerSuffix(Unslug(slug)))

\* a lone surrogate, U+D800 not followed by a low surrogate, as an atom
LoneSurrogate == "uD800"

\* encodeURIComponent(s): None when it throws URIError, which it does for a
\* lone surrogate; of the characters it escapes the slugs here have "," and
\* " " only
encodeURIComponent(s) ==
  IF \E i \in 1..Len(s) : s[i] = LoneSurrogate THEN None
  ELSE Some(Flatten([i \in 1..Len(s) |->
                       CASE s[i] = "," -> <<"%", "2", "C">>
                         [] s[i] = " " -> <<"%", "2", "0">>
                         [] OTHER -> <<s[i]>>]))

\* name, fullName, sortName, url, birthYear, deathYear and the warnings of
\* parseComposerWikitext; a warning is its message and the value appended
\* to it; [error] when the call throws
parseComposerWikitext(wikitext, slug) ==
  LET build(params) ==
        LET firstName == FirstParam(params, <<<<"f", "i", "r", "s", "t", "_", "n", "a", "m", "e">>, <<"f", "i", "r", "s", "t", "n", "a", "m", "e">>>>)
            lastName == FirstParam(params, <<<<"l", "a", "s", "t", "_", "n", "a", "m", "e">>, <<"l", "a", "s", "t", "n", "a", "m", "e">>>>)
            fullName == FirstParam(params, <<<<"f", "u", "l", "l", "_", "n", "a", "m", "e">>, <<"f", "u", "l", "l", "n", "a", "m", "e">>>>)
            joined == IF fullName = <<>> /\ firstName # <<>> /\ lastName # <<>>
                      THEN firstName \o <<" ">> \o lastName
                      ELSE fullName
            name == IF joined = <<>> THEN formatSlugAsName(slug) ELSE joined
            birthYear == parseYear(FirstParam(params, <<<<"b", "i", "r", "t", "h", "_", "d", "a", "t", "e">>, <<"b", "o", "r", "n">>>>))
            deathYear == parseYear(FirstParam(params, <<<<"d", "e", "a", "t", "h", "_", "d", "a", "t", "e">>, <<"d", "i", "e", "d">>>>))
            birthDate == FirstParam(params, <<<<"b", "i", "r", "t", "h", "_", "d", "a", "t", "e">>>>)
            deathDate == FirstParam(params, <<<<"d", "e", "a", "t", "h", "_", "d", "a", "t", "e">>>>)
            \* encodeURIComponent(slug.replace(/ /g, '_'))
            url == encodeURIComponent([i \in 1..Len(slug) |->
                                         IF slug[i] = " " THEN "_" ELSE slug[i]])
        IN IF ~IsSome(url) THEN [error |-> "URIError: URI malformed"] ELSE
           [name |-> name,
            url |-> <<"h", "t", "t", "p", "s", ":", "/", "/", "i", "m", "s", "l", "p", ".", "o", "r", "g", "/", "w", "i", "k", "i", "/", "C", "a", "t", "e", "g", "o", "r", "y", ":">> \o url.val,
            fullName |-> IF fullName # <<>> THEN fullName ELSE name,
            sortName |-> IF lastName # <<>> /\ firstName # <<>>
                         THEN lastName \o <<",", " ">> \o firstName
                         ELSE name,
            birthYear |-> birthYear,
            deathYear |-> deathYear,
            warnings |->
              (IF joined = <<>>
               THEN <<[msg |-> "Could not extract composer name from template, using slug",
                       arg |-> <<>>]>>
               ELSE <<>>)
              \o (IF ~IsSome(birthYear) /\ birthDate # <<>>
                  THEN <<[msg |-> "Could not parse birth date: ", arg |-> birthDate]>>
                  ELSE <<>>)
              \o (IF ~IsSome(deathYear) /\ deathDate # <<>>
                  THEN <<[msg |-> "Could not parse death date: ", arg |-> deathDate]>>
                  ELSE <<>>)]
  IN CHOOSE r \in {build(params) :
                     params \in {ParamsOf(findTemplate(wikitext, <<"C", "o", "m", "p", "o", "s", "e", "r">>))}} : TRUE

\* findTemplate(wikitext, names[1]) ?? findTemplate(wikitext, names[2]) ?? ...
RECURSIVE FirstTemplate(_, _)
FirstTemplate(wikitext, names) ==
  IF names = <<>> THEN None
  ELSE CHOOSE r \in {IF IsSome(template) THEN template
                     ELSE FirstTemplate(wikitext, Tail(names)) :
                       template \in {findTemplate(wikitext, Head(names))}} : TRUE

\* workSlug.match(/\(([^)]+)\)$/)?.[1]?.replace(/_/g, ' '): the text between
\* the leftmost "(" that is followed by one or more characters other than
\* ")" and then by a ")" ending the slug
extractComposerFromSlug(workSlug) ==
  LET n == Len(workSlug)
      opens == {p \in 1..n :
                  /\ workSlug[p] = "("
                  /\ workSlug[n] = ")"
                  /\ p + 1 < n
                  /\ \A q \in (p + 1)..(n - 1) : workSlug[q] # ")"}
      p0 == CHOOSE p \in opens : \A q \in opens : p <= q
  IN IF opens = {} THEN None ELSE Some(Unslug(SubSeq(workSlug, p0 + 1, n - 1)))

\* title, url, year, composer and the warnings of parseWorkWikitext, for a
\* page without movement lines whose template names no instrument;
\* composerSlug is None when the argument is left out; [error] when the
\* call throws
parseWorkWikitext(wikitext, slug, composerSlug) ==
  LET build(params) ==
        LET given == FirstParam(params, <<<<"w", "o", "r", "k", "_", "t", "i", "t", "l", "e">>, <<"w", "o", "r", "k", "t", "i", "t", "l", "e">>, <<"t", "i", "t", "l", "e">>>>)
            yearStr == FirstParam(params, <<<<"y", "e", "a", "r">>, <<"y", "e", "a", "r", "_", "o", "f", "_", "c", "o", "m", "p", "o", "s", "i", "t", "i", "o", "n">>, <<"c", "o", "m", "p", "o", "s", "i", "t", "i", "o", "n", "_", "y", "e", "a", "r">>>>)
            year == parseYear(yearStr)
            instrumentStr ==
              FirstParam(params, <<<<"i", "n", "s", "t", "r", "u", "m", "e", "n", "t", "a", "t", "i", "o", "n">>, <<"i", "n", "s", "t", "r", "u", "m", "e", "n", "t", "s">>, <<"s", "c", "o", "r", "i", "n", "g">>>>)
            extracted == extractComposerFromSlug(slug)
            \* encodeURIComponent(slug.replace(/ /g, '_'))
            url == encodeURIComponent([i \in 1..Len(slug) |->
                                         IF slug[i] = " " THEN "_" ELSE slug[i]])
        IN IF ~IsSome(url) THEN [error |-> "URIError: URI malformed"] ELSE
           [title |-> IF given = <<>> THEN formatSlugAsTitle(slug) ELSE given,
            url |-> <<"h", "t", "t", "p", "s", ":", "/", "/", "i", "m", "s", "l", "p", ".", "o", "r", "g", "/", "w", "i", "k", "i", "/">> \o url.val,
            year |-> year,
            composer |->
              [slug |-> IF IsSome(composerSlug) THEN composerSlug.val
                        ELSE IF IsSome(extracted) THEN extracted.val
                        ELSE <<>>,
               name |-> IF HasParam(params, <<"c", "o", "m", "p", "o", "s", "e", "r">>)
                        THEN FirstParam(params, <<<<"c", "o", "m", "p", "o", "s", "e", "r">>>>)
                        ELSE formatSlugAsName(IF IsSome(composerSlug)
                                              THEN composerSlug.val ELSE <<>>)],
            warnings |->
              (IF given = <<>>
               THEN <<[msg |-> "Could not extract work title from template, using slug",
                       arg |-> <<>>]>>
               ELSE <<>>)
              \o (IF ~IsSome(year) /\ yearStr # <<>>
                  THEN <<[msg |-> "Could not parse composition year: ", arg |-> yearStr]>>
                  ELSE <<>>)
              \o (IF instrumentStr = <<>>
                  THEN <<[msg |-> "No instrumentation data found", arg |-> <<>>]>>
                  ELSE <<>>)]
  IN CHOOSE r \in {build(params) :
                     params \in {ParamsOf(FirstTemplate(wikitext,
                                   <<<<"W", "o", "r", "k">>, <<"C", "o", "m", "p", "o", "s", "i", "t", "i", "o", "n">>, <<"I", "m", "s", "l", "p", "w", "o", "r", "k">>>>))}} : TRUE

\* filename, url, editor, publisher, publicationYear and the warnings of
\* parseScoreWikitext; [error] when the call throws
parseScoreWikitext(wikitext, filename) ==
  LET includes(name, word) == \E i \in 1..Len(name) : StartsAt(name, i, word)
      build(templates) ==
        LET file == {i \in 1..Len(templates) :
                       \E word \in {<<"f", "i", "l", "e">>, <<"s", "c", "o", "r", "e">>, <<"p", "d", "f">>} :
                         includes(toLowerCase(templates[i].name), word)}
            params == IF file = {} THEN <<>>
                      ELSE templates[CHOOSE i \in file : \A j \in file : i <= j].params
            url == encodeURIComponent(filename)
        IN IF ~IsSome(url) THEN [error |-> "URIError: URI malformed"] ELSE
           [filename |-> filename,
            url |-> <<"h", "t", "t", "p", "s", ":", "/", "/", "i", "m", "s", "l", "p", ".", "o", "r", "g", "/", "w", "i", "k", "i", "/", "F", "i", "l", "e", ":">> \o url.val,
            editor |-> IF HasParam(params, <<"e", "d", "i", "t", "o", "r">>) \/ HasParam(params, <<"a", "r", "r", "a", "n", "g", "e", "r">>)
                       THEN Some(FirstParam(params, <<<<"e", "d", "i", "t", "o", "r">>, <<"a", "r", "r", "a", "n", "g", "e", "r">>>>))
                       ELSE None,
            publisher |-> IF HasParam(params, <<"p", "u", "b", "l", "i", "s", "h", "e", "r">>)
                          THEN Some(FirstParam(params, <<<<"p", "u", "b", "l", "i", "s", "h", "e", "r">>>>))
                          ELSE None,
            publicationYear |-> parseYear(FirstParam(params, <<<<"y", "e", "a", "r">>, <<"p", "u", "b", "_", "y", "e", "a", "r">>>>)),
            warnings |-> <<>>]
  IN CHOOSE r \in {build(templates) : templates \in {extractTemplates(wikitext)}} : TRUE

(***************************************************************************)
(* Inputs of the builders: a page holding one template, its name from the  *)
(* first table and at most MaxFields parameters from the second, and a     *)
(* slug.  A parameter is written key=value; its row also records the field *)
(* the key spells (name for the full name, first, last, title, or other).  *)
(***************************************************************************)
MaxFields == 2

PageTemplates == << <<"C", "o", "m", "p", "o", "s", "e", "r">>, <<"W", "o", "r", "k">>, <<"I", "m", "s", "l", "p", "w", "o", "r", "k">>, <<"O", "t", "h", "e", "r">>, <<"P", "D", "F", "-", "F", "i", "l", "e">> >>

PageFields ==
  << [key |-> <<"f", "u", "l", "l", "_", "n", "a", "m", "e">>, field |-> "name", value |-> <<"F">>],
     [key |-> <<"f", "u", "l", "l", "_", "n", "a", "m", "e">>, field |-> "name", value |-> <<>>],
     [key |-> <<"f", "u", "l", "l", "n", "a", "m", "e">>, field |-> "name", value |-> <<"G">>],
     [key |-> <<"f", "i", "r", "s", "t", "_", "n", "a", "m", "e">>, field |-> "first", value |-> <<"A">>],
     [key |-> <<"l", "a", "s", "t", "_", "n", "a", "m", "e">>, field |-> "last", value |-> <<"Z">>],
     [key |-> <<"l", "a", "s", "t", "n", "a", "m", "e">>, field |-> "last", value |-> <<"Y">>],
     [key |-> <<"w", "o", "r", "k", "_", "t", "i", "t", "l", "e">>, field |-> "title", value |-> <<"T">>],
     [key |-> <<"w", "o", "r", "k", "_", "t", "i", "t", "l", "e">>, field |-> "title", value |-> <<>>],
     [key |-> <<"w", "o", "r", "k", "t", "i", "t", "l", "e">>, field |-> "title", value |-> <<"U">>],
     [key |-> <<"t", "i", "t", "l", "e">>, field |-> "title", value |-> <<"V">>],
     [key |-> <<"k", "e", "y">>, field |-> "other", value |-> <<"C">>],
     [key |-> <<"c", "o", "m", "p", "o", "s", "e", "r">>, field |-> "composer", value |-> <<"B", "a", "c", "h">>],
     [key |-> <<"b", "i", "r", "t", "h", "_", "d", "a", "t", "e">>, field |-> "birth", value |-> <<"1", "7", "7", "0">>, year |-> TRUE],
     [key |-> <<"b", "i", "r", "t", "h", "_", "d", "a", "t", "e">>, field |-> "birth", value |-> <<"u", "n", "k", "n", "o", "w", "n">>, year |-> FALSE],
     [key |-> <<"b", "i", "r", "t", "h", "_", "d", "a", "t", "e">>, field |-> "birth", value |-> <<>>, year |-> FALSE],
     [key |-> <<"b", "o", "r", "n">>, field |-> "birth", value |-> <<"M", "a", "r", "c", "h", " ", "1", "6", "8", "5">>, year |-> TRUE],
     [key |-> <<"b", "o", "r", "n">>, field |-> "birth", value |-> <<"u", "n", "k", "n", "o", "w", "n">>, year |-> FALSE],
     [key |-> <<"d", "e", "a", "t", "h", "_", "d", "a", "t", "e">>, field |-> "death", value |-> <<"1", "8", "t", "h", " ", "c", "e", "n", "t", "u", "r", "y">>, year |-> TRUE],
     [key |-> <<"d", "e", "a", "t", "h", "_", "d", "a", "t", "e">>, field |-> "death", value |-> <<"?", "?", "?">>, year |-> FALSE],
     [key |-> <<"d", "i", "e", "d">>, field |-> "death", value |-> <<"1", "7", "5", "0">>, year |-> TRUE],
     [key |-> <<"d", "i", "e", "d">>, field |-> "death", value |-> <<"c", ".", " ", "1", "7", "5">>, year |-> FALSE],
     [key |-> <<"e", "d", "i", "t", "o", "r">>, field |-> "score", value |-> <<"E">>],
     [key |-> <<"p", "u", "b", "_", "y", "e", "a", "r">>, field |-> "score", value |-> <<"1", "9", "0", "0">>] >>

PageSlugs ==
  << [slug |-> <<"B", "a", "c", "h", ",", "_", "J", "o", "h", "a", "n", "n", "_", "S", "e", "b", "a", "s", "t", "i", "a", "n">>, name |-> <<"J", "o", "h", "a", "n", "n", " ", "S", "e", "b", "a", "s", "t", "i", "a", "n", " ", "B", "a", "c", "h">>,
      title |-> <<"B", "a", "c", "h", ",", " ", "J", "o", "h", "a", "n", "n", " ", "S", "e", "b", "a", "s", "t", "i", "a", "n">>, composer |-> None],
     [slug |-> <<"P", "i", "a", "n", "o", "_", "S", "o", "n", "a", "t", "a", "_", "(", "B", "a", "c", "h", ",", "_", "J", ")">>, name |-> <<"J", ")", " ", "P", "i", "a", "n", "o", " ", "S", "o", "n", "a", "t", "a", " ", "(", "B", "a", "c", "h">>,
      title |-> <<"P", "i", "a", "n", "o", " ", "S", "o", "n", "a", "t", "a">>,
      composer |-> Some([segment |-> <<"B", "a", "c", "h", ",", "_", "J">>, name |-> <<"J", " ", "B", "a", "c", "h">>])],
     [slug |-> <<>>, name |-> <<>>, title |-> <<>>, composer |-> None],
     [slug |-> <<"B", LoneSurrogate>>] >>

PageText(in) ==
  in.open \o PageTemplates[in.template]
    \o Flatten([i \in 1..Len(in.fields) |->
                   <<"|">> \o PageFields[in.fields[i]].key \o <<"=">>
                     \o PageFields[in.fields[i]].value])
    \o in.close

InitResponse ==
  /\ pc = "start"
  /\ op = "none"
  /\ inp \in [open : {<<"{", "{">>},
              template : 1..Len(PageTemplates),
              fields : SeqsUpTo({i \in 1..Len(PageFields) :
                                  PageFields[i].field \notin {"birth", "death", "score"}},
                                MaxFields),
              close : {<<"}", "}">>},
              slug : {i \in 1..Len(PageSlugs) : IsSome(encodeURIComponent(PageSlugs[i].slug))},
              composer : {None}
                           \cup {Some(PageSlugs[i].slug) :
                                   i \in {i \in 1..Len(PageSlugs) :
                                            IsSome(encodeURIComponent(PageSlugs[i].slug))}}]
  /\ out = None
  /\ NoObjects

DoParseComposerWikitext ==
  /\ pc = "start"
  /\ pc' = "done"
  /\ op' = "parseComposerWikitext"
  /\ out' = parseComposerWikitext(PageText(inp), PageSlugs[inp.slug].slug)
  /\ UNCHANGED inp
  /\ UNCHANGED objects

DoParseWorkWikitext ==
  /\ pc = "start"
  /\ pc' = "done"
  /\ op' = "parseWorkWikitext"
  /\ out' = parseWorkWikitext(PageText(inp), PageSlugs[inp.slug].slug, inp.composer)
  /\ UNCHANGED inp
  /\ UNCHANGED objects

NextResponse == DoParseComposerWikitext \/ DoParseWorkWikitext

SpecResponse == InitResponse /\ [][NextResponse]_vars

\* the non-empty values the page's template supplies for a field; of a key
\* written twice the last occurrence counts
Supplied(in, field) ==
  LET row(i) == PageFields[in.fields[i]]
      at == {i \in 1..Len(in.fields) :
               /\ row(i).field = field
               /\ row(i).value # <<>>
               /\ \A j \in (i + 1)..Len(in.fields) : row(j).key # row(i).key}
  IN {row(i).value : i \in at}

HasWarning(w) == \E i \in 1..Len(out.warnings) : out.warnings[i].msg = w

\* C10: the composer name and the work title come from the template under
\* any accepted spelling of the field (for the name also first name plus
\* last name), and from the slug only when the template supplies no value
\* under any of them; the "Could not extract ... using slug" warning is
\* present exactly when the slug-derived value was used.
C10_PrimaryFields ==
  /\ (pc = "done" /\ op = "parseComposerWikitext" /\ inp.template = 1) =>
       LET names == Supplied(inp, "name")
           firsts == Supplied(inp, "first")
           lasts == Supplied(inp, "last")
           fromSlug == names = {} /\ (firsts = {} \/ lasts = {})
       IN /\ names # {} => out.name \in names
          /\ (names = {} /\ firsts # {} /\ lasts # {}) =>
               \E f \in firsts, l \in lasts : out.name = f \o <<" ">> \o l
          /\ fromSlug => out.name = PageSlugs[inp.slug].name
          /\ fromSlug <=> HasWarning("Could not extract composer name from template, using slug")
  /\ (pc = "done" /\ op = "parseWorkWikitext" /\ inp.template \in {2, 3}) =>
       LET titles == Supplied(inp, "title")
       IN /\ titles # {} => out.title \in titles
          /\ titles = {} => out.title = PageSlugs[inp.slug].title
          /\ titles = {} <=> HasWarning("Could not extract work title from template, using slug")

(***************************************************************************)
(* Year texts: up to MaxYearSegs pieces of YearSegments, concatenated.     *)
(***************************************************************************)
MaxYearSegs == 3

MaxDigitRun == 6

YearSegments ==
  << <<"1", "7", "7", "0">>, <<"3", "5", "0", "0">>, <<"1", "2">>, <<"0">>, <<"t", "h", " ", "c", "e", "n", "t", "u", "r", "y">>, <<" ">>, <<"-">>,
     <<EnDash>>, <<"x">> >>

YearText(in) == Flatten([k \in 1..Len(in) |-> YearSegments[in[k]]])

\* the year texts whose runs of digits have at most MaxDigitRun digits
InitYear ==
  /\ pc = "start"
  /\ op = "none"
  /\ inp \in { in \in SeqsUpTo(1..Len(YearSegments), MaxYearSegs) :
                 \A i \in 1..(Len(YearText(in)) - MaxDigitRun) :
                   \E k \in i..(i + MaxDigitRun) : YearText(in)[k] \notin DigitSet }
  /\ out = None
  /\ NoObjects

DoParseYear ==
  /\ pc = "start"
  /\ pc' = "done"
  /\ op' = "parseYear"
  /\ out' = parseYear(YearText(inp))
  /\ UNCHANGED inp
  /\ UNCHANGED objects

DoParseYearRange ==
  /\ pc = "start"
  /\ pc' = "done"
  /\ op' = "parseYearRange"
  /\ out' = LET text == YearText(inp)
                 \* the text with every hyphen written as an en dash
                 dashed == [k \in 1..Len(text) |->
                              IF text[k] = "-" THEN EnDash ELSE text[k]]
             IN [range |-> parseYearRange(text),
                 dashed |-> parseYearRange(dashed)]
  /\ UNCHANGED inp
  /\ UNCHANGED objects

SpecYear == InitYear /\ [][DoParseYear \/ DoParseYearRange]_vars

\* t[i..j] is a non-empty run of digits
DigitRun(t, i, j) ==
  1 <= i /\ i <= j /\ j <= Len(t) /\ \A k \in i..j : t[k] \in DigitSet

\* the numbers n of the occurrences "<n>st|nd|rd|th century" in t
CenturiesIn(t) ==
  { parseInt(SubSeq(t, i, j)) : <<i, j>> \in
      { ij \in (1..Len(t)) \X (1..Len(t)) :
          /\ DigitRun(t, ij[1], ij[2])
          /\ \E suffix \in {<<"s", "t">>, <<"n", "d">>, <<"r", "d">>, <<"t", "h">>} :
               StartsAtCI(t, ij[2] + 1, suffix)
          /\ \E m \in (ij[2] + 3)..(Len(t) + 1) :
               /\ \A k \in (ij[2] + 3)..(m - 1) : t[k] \in WhiteSpace
               /\ StartsAtCI(t, m, <<"c", "e", "n", "t", "u", "r", "y">>) } }

\* the values of the runs of exactly four digits of t that stand between
\* word boundaries
WordBounded4In(t) ==
  { parseInt(SubSeq(t, i, i + 3)) : i \in
      { i \in 1..(Len(t) - 3) :
          /\ DigitRun(t, i, i + 3)
          /\ ~IsWordChar(CharAt(t, i - 1))
          /\ ~IsWordChar(CharAt(t, i + 4)) } }

YearParsed == pc = "done" /\ op = "parseYear"

\* C14: parseYear gives (century-1)*100+50 for a text with an ordinal
\* century; else the value of an all-digit trimmed text when it lies
\* strictly between 0 and 3000; else the value of a word-bounded 4-digit
\* run of the text that lies strictly between 0 and 3000, whenever the text
\* has one; and undefined in every other case.
C14_ThreeRules ==
  YearParsed =>
    LET t == YearText(inp)
        whole == trim(t)
        years == {y \in WordBounded4In(t) : y > 0 /\ y < 3000}
    IN IF CenturiesIn(t) # {}
       THEN \E c \in CenturiesIn(t) : out = Some((c - 1) * 100 + 50)
       ELSE IF whole # <<>> /\ DigitRun(whole, 1, Len(whole))
               /\ parseInt(whole) > 0 /\ parseInt(whole) < 3000
       THEN out = Some(parseInt(whole))
       ELSE IF years # {}
       THEN \E y \in years : out = Some(y)
       ELSE out = None

YearRangeParsed == pc = "done" /\ op = "parseYearRange"

\* the pairs <<a, b>> of the occurrences "<4 digits> - <4 digits>" in t, the
\* separator a hyphen or an en dash with optional whitespace on both sides
RangesIn(t) ==
  { <<parseInt(SubSeq(t, q[1], q[1] + 3)), parseInt(SubSeq(t, q[3], q[3] + 3))>> :
      q \in { q \in (1..Len(t)) \X (1..Len(t)) \X (1..Len(t)) :
                /\ DigitRun(t, q[1], q[1] + 3)
                /\ q[1] + 3 < q[2] /\ q[2] < q[3]
                /\ t[q[2]] \in {"-", EnDash}
                /\ \A k \in (q[1] + 4)..(q[2] - 1) : t[k] \in WhiteSpace
                /\ \A k \in (q[2] + 1)..(q[3] - 1) : t[k] \in WhiteSpace
                /\ DigitRun(t, q[3], q[3] + 3) } }

\* C19: parseYearRange gives {start, end} for a text with two 4-digit years
\* around a hyphen or en dash (optional whitespace on both sides), else
\* {start} alone when parseYear succeeds on the text, else {}; the text
\* with en dashes for its hyphens gives the identical result; no result has
\* an end without a start.
C19_RangeOrStart ==
  YearRangeParsed =>
    LET t == YearText(inp)
        r == out.range
    IN /\ IF RangesIn(t) # {}
          THEN \E ab \in RangesIn(t) :
                 r = [start |-> Some(ab[1]), end |-> Some(ab[2])]
          ELSE r = [start |-> parseYear(t), end |-> None]
       /\ out.dashed = r
       /\ IsSome(r.end) => IsSome(r.start)

\* a range was found in a text whose separator is a hyphen
C19_Witness ==
  /\ YearRangeParsed
  /\ IsSome(out.range.end)
  /\ \E k \in 1..Len(YearText(inp)) : YearText(inp)[k] = "-"

(***************************************************************************)
(* Composer pages with date parameters: the rows of PageFields that spell  *)
(* a birth or a death date; year tells whether the value holds a year.     *)
(***************************************************************************)
InitDates ==
  /\ pc = "start"
  /\ op = "none"
  /\ inp \in [template : {1},
              fields : SeqsUpTo({i \in 1..Len(PageFields) :
                                  PageFields[i].field \in {"birth", "death"}},
                                MaxFields),
              slug : {1},
              composer : {None},
              open : {<<"{", "{">>},
              close : {<<"}", "}">>}]
  /\ out = None
  /\ NoObjects

SpecDates == InitDates /\ [][DoParseComposerWikitext]_vars

\* the rows of the page that give the field a non-empty value, a repeated
\* key counting once, as written last
DateRows(in, field) ==
  {in.fields[i] : i \in
     {i \in 1..Len(in.fields) :
        /\ PageFields[in.fields[i]].field = field
        /\ PageFields[in.fields[i]].value # <<>>
        /\ \A j \in (i + 1)..Len(in.fields) :
             PageFields[in.fields[j]].key # PageFields[in.fields[i]].key}}

ComposerParsed == pc = "done" /\ op = "parseComposerWikitext"

\* the date warning of a field is present when every non-empty value the
\* page gives it holds no year, and only when some such value holds none
DateWarned(field, w) ==
  LET rows == DateRows(inp, field)
  IN /\ (rows # {} /\ \A r \in rows : ~PageFields[r].year) => HasWarning(w)
     /\ HasWarning(w) => \E r \in rows : ~PageFields[r].year

\* C11: the birth (death) date warning is present exactly when the template
\* gives a non-empty birth (death) date under an accepted key (birth_date or
\* born; death_date or died) and that value holds no year; never when the
\* field is absent, never when a year was parsed.
C11_DateWarnings ==
  (ComposerParsed /\ inp.template = 1) =>
    /\ DateWarned("birth", "Could not parse birth date: ")
    /\ DateWarned("death", "Could not parse death date: ")
    /\ HasWarning("Could not parse birth date: ") => ~IsSome(out.birthYear)
    /\ HasWarning("Could not parse death date: ") => ~IsSome(out.deathYear)

WorkParsed == pc = "done" /\ op = "parseWorkWikitext"

\* the display form of a slug of the table, "Last, First" read "First Last"
DisplayName(slug) ==
  (CHOOSE row \in {PageSlugs[i] : i \in 1..Len(PageSlugs)} : row.slug = slug).name

\* C12: the composer reference of parseWorkWikitext has the supplied
\* composerSlug as its slug when one is given, otherwise the trailing
\* parenthesised segment of the work slug; whenever a slug is obtained from
\* either source, the name is the non-empty display form of that slug.
C12_ComposerReference ==
  WorkParsed =>
    LET segment == PageSlugs[inp.slug].composer
    IN /\ (IsSome(inp.composer) /\ inp.composer.val # <<>>) =>
            /\ out.composer.slug = inp.composer.val
            /\ out.composer.name = DisplayName(inp.composer.val)
       /\ (inp.composer = None /\ IsSome(segment)) =>
            /\ out.composer.slug \in {segment.val.segment, Unslug(segment.val.segment)}
            /\ out.composer.name = segment.val.name

(***************************************************************************)
(* parseMovements: the movement lines of a page.  A movement is kept as    *)
(* its number and its trimmed text, of which title, tempo and key are      *)
(* functions.                                                              *)
(***************************************************************************)
\* the lazy (.+?) before (?:\n|$) takes what a greedy one takes: the
\* characters up to the next line break or the end of the text
MOVEMENT_PATTERNS ==
  LET sp == <<Star(<<Ch(WhiteSpace)>>)>>
      bol == <<Alt(<<[t |-> "bos"]>>, <<Ch({"\n"})>>)>>
      eol == <<Alt(<<Ch({"\n"})>>, <<[t |-> "eos"]>>)>>
      num == <<Grp(1, Plus(<<Ch(DigitSet)>>))>>
      content == <<Grp(2, Plus(<<[t |-> "dot"]>>))>>
  IN << \* /(?:^|\n)#\s*([IVXL]+)\.\s*(.+?)(?:\n|$)/gi
        bol \o <<Ch({"#"})>> \o sp \o <<Grp(1, Plus(<<ChI({"i", "v", "x", "l"})>>))>>
          \o <<Ch({"."})>> \o sp \o content \o eol,
        \* /(?:^|\n)(\d+)\.\s*(.+?)(?:\n|$)/gi
        bol \o num \o <<Ch({"."})>> \o sp \o content \o eol,
        \* /Movement\s+(\d+)[:\s]+(.+?)(?:\n|$)/gi
        LitI(<<"M", "o", "v", "e", "m", "e", "n", "t">>) \o Plus(<<Ch(WhiteSpace)>>) \o num
          \o Plus(<<Ch(WhiteSpace \cup {":"})>>) \o content \o eol >>

parseRomanNumeral(roman) ==
  LET upper == toUpperCase(roman)
      values(c) == CASE c = "I" -> 1 [] c = "V" -> 5 [] c = "X" -> 10
                     [] c = "L" -> 50 [] c = "C" -> 100 [] c = "D" -> 500
                     [] c = "M" -> 1000 [] OTHER -> 0
      term(i) == IF values(CharAt(upper, i)) < values(CharAt(upper, i + 1))
                 THEN 0 - values(CharAt(upper, i))
                 ELSE values(CharAt(upper, i))
      sum[i \in 0..Len(upper)] == IF i = 0 THEN 0 ELSE sum[i - 1] + term(i)
  IN sum[Len(upper)]

\* number and content of every match, in the order the loops meet them
MovementMatches(wikitext) ==
  LET \* while ((match = pattern.exec(wikitext)) !== null): the matches of
      \* one pattern, each search starting where the match before ended
      RECURSIVE ExecAll(_, _)
      ExecAll(pattern, lastIndex) ==
        LET match == SearchFrom(pattern, wikitext, lastIndex)
        IN IF match.ok THEN <<match>> \o ExecAll(pattern, match.to) ELSE <<>>
      matches == Flatten([k \in 1..Len(MOVEMENT_PATTERNS) |->
                            ExecAll(MOVEMENT_PATTERNS[k], 1)])
      numStr(m) == m.caps[1].val
  IN [i \in 1..Len(matches) |->
        [number |-> IF \A k \in 1..Len(numStr(matches[i])) : numStr(matches[i])[k] \in DigitSet
                    THEN parseInt(numStr(matches[i]))
                    ELSE parseRomanNumeral(numStr(matches[i])),
         content |-> trim(matches[i].caps[2].val)]]

\* if (number > 0 && content) { if (!movements.some(..)) movements.push(..) }
RECURSIVE PushMovements(_, _, _)
PushMovements(found, i, movements) ==
  IF i > Len(found) THEN movements
  ELSE IF /\ found[i].number > 0
          /\ found[i].content # <<>>
          /\ \A k \in 1..Len(movements) : movements[k].number # found[i].number
  THEN PushMovements(found, i + 1, Append(movements, found[i]))
  ELSE PushMovements(found, i + 1, movements)

\* a mutant: the list is returned in the order it was filled
parseMovements_Unsorted(wikitext) == PushMovements(MovementMatches(wikitext), 1, <<>>)

parseMovements(wikitext) ==
  SortSeq(PushMovements(MovementMatches(wikitext), 1, <<>>),
          LAMBDA a, b : a.number < b.number)

(***************************************************************************)
(* Pages of movement lines: up to MaxLines lines of MovementLines, joined  *)
(* by line breaks.                                                         *)
(***************************************************************************)
MaxLines == 3

MovementLines ==
  << <<"#", " ", "I", ".", " ", "A">>, <<"#", " ", "I", "I", ".", " ", "B">>, <<"#", "i", "v", ".", "C">>, <<"1", ".", " ", "D">>, <<"2", ".", " ", " ">>, <<"M", "o", "v", "e", "m", "e", "n", "t", " ", "2", ":", " ", "E">>,
     <<"0", ".", " ", "Z">>, <<"x">>, <<"3", ".", " ", "F">> >>

InitMovements ==
  /\ pc = "start"
  /\ op = "none"
  /\ inp \in SeqsUpTo(1..Len(MovementLines), MaxLines)
  /\ out = None
  /\ NoObjects

DoParseMovements ==
  /\ pc = "start"
  /\ pc' = "done"
  /\ op' = "parseMovements"
  /\ out' = LET wikitext == Flatten([k \in 1..Len(inp) |->
                                        (IF k = 1 THEN <<>> ELSE <<"\n">>)
                                          \o MovementLines[inp[k]]])
             IN [found |-> MovementMatches(wikitext),
                 movements |-> parseMovements(wikitext)]
  /\ UNCHANGED inp
  /\ UNCHANGED objects

SpecMovements == InitMovements /\ [][DoParseMovements]_vars

MovementsParsed == pc = "done" /\ op = "parseMovements"

\* match k of the page yields a movement: a number above 0 and some text
Yields(k) == out.found[k].number > 0 /\ out.found[k].content # <<>>

\* C13: the movement numbers of the list are all greater than 0 and strictly
\* increasing, whichever pattern matched an item and wherever it stood; of
\* the matches yielding the same number the list holds the first one met,
\* and every number yielded is in the list.
C13_MovementsSorted ==
  MovementsParsed =>
    LET m == out.movements
    IN /\ \A i \in 1..Len(m) : m[i].number > 0
       /\ \A i \in 1..(Len(m) - 1) : m[i].number < m[i + 1].number
       /\ \A i \in 1..Len(m) :
            \E k \in 1..Len(out.found) :
              /\ Yields(k) /\ out.found[k] = m[i]
              /\ \A j \in 1..(k - 1) : Yields(j) => out.found[j].number # m[i].number
       /\ \A k \in 1..Len(out.found) :
            Yields(k) => \E i \in 1..Len(m) : m[i].number = out.found[k].number

\* two matches yield the same number with different text, and a match with
\* a higher number is met before one with a lower number
C13_Witness ==
  /\ MovementsParsed
  /\ \E j, k \in 1..Len(out.found) :
       /\ j < k /\ Yields(j) /\ Yields(k)
       /\ out.found[j].number = out.found[k].number
       /\ out.found[j].content # out.found[k].content
  /\ \E j, k \in 1..Len(out.found) :
       j < k /\ Yields(j) /\ Yields(k) /\ out.found[j].number > out.found[k].number

\* the lines "# <Roman numeral>. <text>" and the lines "<n>. <text>" of
\* MovementLines with a number above 0 and some text, and their numbers
RomanItems == {1, 2}

ArabicItems == {4, 9}

ItemNumber == [r \in RomanItems \cup ArabicItems |->
                 CASE r = 1 -> 1 [] r = 2 -> 2 [] r = 4 -> 1 [] r = 9 -> 3]

\* C25: a page of k lines, all Roman-numeral list items or all
\* Arabic-numeral list items, with pairwise distinct numbers, gives exactly
\* k movements, with the numbers of the lines.
C25_EveryListItem ==
  (/\ MovementsParsed
   /\ \/ \A k \in 1..Len(inp) : inp[k] \in RomanItems
      \/ \A k \in 1..Len(inp) : inp[k] \in ArabicItems
   /\ \A j \in 1..Len(inp), k \in 1..Len(inp) : j # k => inp[j] # inp[k])
  => /\ Len(out.movements) = Len(inp)
     /\ {out.movements[i].number : i \in 1..Len(out.movements)}
          = {ItemNumber[inp[k]] : k \in 1..Len(inp)}

(***************************************************************************)
(* findTemplate: pages of up to MaxTemplates pieces of FindPieces, looked  *)
(* up under a name of FindNames.  lower is the name in lower case; a piece *)
(* that is no template has no name.                                        *)
(***************************************************************************)
MaxTemplates == 3

FindPieces ==
  << [text |-> <<"{", "{", "W", "o", "r", "k", "|", "a", "=", "1", "}", "}">>, lower |-> Some(<<"w", "o", "r", "k">>)],
     [text |-> <<"{", "{", "W", "O", "R", "K", "|", "a", "=", "2", "}", "}">>, lower |-> Some(<<"w", "o", "r", "k">>)],
     [text |-> <<"{", "{", "W", "o", "r", "k", "p", "a", "g", "e", "|", "a", "=", "3", "}", "}">>, lower |-> Some(<<"w", "o", "r", "k", "p", "a", "g", "e">>)],
     [text |-> <<"{", "{", " ", "w", "o", "r", "k", " ", "|", "a", "=", "4", "}", "}">>, lower |-> Some(<<"w", "o", "r", "k">>)],
     [text |-> <<"{", "{", "C", "o", "m", "p", "o", "s", "e", "r", "|", "a", "=", "5", "}", "}">>, lower |-> Some(<<"c", "o", "m", "p", "o", "s", "e", "r">>)],
     [text |-> <<" ", "x", " ">>, lower |-> None] >>

FindNames ==
  << [name |-> <<"W", "o", "r", "k">>, lower |-> <<"w", "o", "r", "k">>],
     [name |-> <<"w", "O", "R", "K">>, lower |-> <<"w", "o", "r", "k">>],
     [name |-> <<"C", "o", "m">>, lower |-> <<"c", "o", "m">>] >>

InitFind ==
  /\ pc = "start"
  /\ op = "none"
  /\ inp \in [pieces : SeqsUpTo(1..Len(FindPieces), MaxTemplates),
              name : 1..Len(FindNames)]
  /\ out = None
  /\ NoObjects

DoFindTemplate ==
  /\ pc = "start"
  /\ pc' = "done"
  /\ op' = "findTemplate"
  /\ out' = findTemplate(Flatten([k \in 1..Len(inp.pieces) |-> FindPieces[inp.pieces[k]].text]),
                         FindNames[inp.name].name)
  /\ UNCHANGED inp
  /\ UNCHANGED objects

SpecFind == InitFind /\ [][DoFindTemplate]_vars

TemplateFound == pc = "done" /\ op = "findTemplate"

\* the positions of the page whose template is named as asked, ignoring
\* case, and those whose template name starts with the name asked
ExactAt ==
  {k \in 1..Len(inp.pieces) :
     FindPieces[inp.pieces[k]].lower = Some(FindNames[inp.name].lower)}

PrefixAt ==
  {k \in 1..Len(inp.pieces) :
     /\ IsSome(FindPieces[inp.pieces[k]].lower)
     /\ startsWith(FindPieces[inp.pieces[k]].lower.val, FindNames[inp.name].lower)}

\* out is the template of the first position of at
IsFirstOf(at) ==
  /\ IsSome(out)
  /\ \E k \in at : /\ \A j \in at : k <= j
                   /\ out.val.raw = FindPieces[inp.pieces[k]].text

\* C15: findTemplate returns the first template in document order whose
\* name equals the name asked, ignoring case; only when there is none, the
\* first whose name starts with it, ignoring case; and null when there is
\* none either.
C15_ExactBeforePrefix ==
  TemplateFound =>
    IF ExactAt # {} THEN IsFirstOf(ExactAt)
    ELSE IF PrefixAt # {} THEN IsFirstOf(PrefixAt)
    ELSE out = None

\* an exact match is returned although a prefix-only match stands before it
C15_Witness ==
  /\ TemplateFound
  /\ \E k \in ExactAt, j \in PrefixAt \ ExactAt : j < k
  /\ IsSome(out)

(***************************************************************************)
(* The examples of the README table "Supported Catalogue Systems", each    *)
(* with the system of its row, parsed bare and between blanks.             *)
(***************************************************************************)
README_EXAMPLES ==
  << [text |-> <<"B", "W", "V", " ", "1", "0", "0", "1">>, system |-> <<"b", "w", "v">>],
     [text |-> <<"K", ".", " ", "3", "3", "1">>, system |-> <<"k">>],
     [text |-> <<"K", "V", " ", "3", "3", "1">>, system |-> <<"k">>],
     [text |-> <<"D", ".", " ", "9", "6", "0">>, system |-> <<"d">>],
     [text |-> <<"O", "p", ".", " ", "2", "7", " ", "N", "o", ".", " ", "2">>, system |-> <<"o", "p">>],
     [text |-> <<"H", "o", "b", ".", " ", "X", "V", "I", ":", "5", "2">>, system |-> <<"h", "o", "b">>],
     [text |-> <<"H", "W", "V", " ", "5", "6">>, system |-> <<"h", "w", "v">>],
     [text |-> <<"R", "V", " ", "2", "6", "9">>, system |-> <<"r", "v">>],
     [text |-> <<"W", "o", "O", " ", "5", "9">>, system |-> <<"w", "o", "o">>],
     [text |-> <<"S", ".", " ", "1", "3", "9">>, system |-> <<"s">>],
     [text |-> <<"W", "W", "V", " ", "8", "6">>, system |-> <<"w", "w", "v">>],
     [text |-> <<"T", "W", "V", " ", "5", "1", ":", "D", "1">>, system |-> <<"t", "w">>],
     [text |-> <<"L", ".", " ", "7", "5">>, system |-> <<"l">>] >>

InitExamples ==
  /\ pc = "start"
  /\ op = "none"
  /\ inp \in [example : 1..Len(README_EXAMPLES),
              lead : {<<>>, <<" ">>, <<"\n">>},
              trail : {<<>>, <<" ">>, <<"\t">>}]
  /\ out = None
  /\ NoObjects

DoParseExample ==
  /\ pc = "start"
  /\ pc' = "done"
  /\ op' = "parseCatalogue"
  /\ out' = parseCatalogue(inp.lead \o README_EXAMPLES[inp.example].text \o inp.trail)
  /\ UNCHANGED inp
  /\ UNCHANGED objects

SpecExamples == InitExamples /\ [][DoParseExample]_vars

\* C16: parseCatalogue classifies every example of the README table under
\* the system of its own row.
C16_ReadmeExamples ==
  (pc = "done" /\ op = "parseCatalogue") =>
    /\ IsSome(out)
    /\ out.val.system = Some(README_EXAMPLES[inp.example].system)

(***************************************************************************)
(* parseAllCatalogues.                                                     *)
(***************************************************************************)
\* a mutant: the first part that does not parse ends the batch
parseAllCatalogues_StopAtNull(text) ==
  LET at == {i \in 1..Len(text) : text[i] \in {";", ","}}
      n == Cardinality(at)
      pos == [k \in 1..n |-> CHOOSE i \in at : Cardinality({j \in at : j < i}) = k - 1]
      parts == [k \in 1..(n + 1) |->
                  SubSeq(text, IF k = 1 THEN 1 ELSE SkipSpace(text, pos[k - 1] + 1),
                         IF k = n + 1 THEN Len(text) ELSE pos[k] - 1)]
      parsed == [k \in 1..(n + 1) |-> parseCatalogue(trim(parts[k]))]
      good == {k \in 1..(n + 1) : \A j \in 1..k : IsSome(parsed[j])}
  IN IF text = <<>> THEN <<>> ELSE [k \in 1..Cardinality(good) |-> parsed[k].val]

\* text.split(/[;,]\s*/): every ";" and "," starts a separator that runs
\* over the blanks after it; the parts lie between the separators
parseAllCatalogues(text) ==
  LET at == {i \in 1..Len(text) : text[i] \in {";", ","}}
      n == Cardinality(at)
      pos == [k \in 1..n |-> CHOOSE i \in at : Cardinality({j \in at : j < i}) = k - 1]
      parts == [k \in 1..(n + 1) |->
                  SubSeq(text, IF k = 1 THEN 1 ELSE SkipSpace(text, pos[k - 1] + 1),
                         IF k = n + 1 THEN Len(text) ELSE pos[k] - 1)]
      parsed == [k \in 1..(n + 1) |-> parseCatalogue(trim(parts[k]))]
      results == SelectSeq(parsed, IsSome)
  IN IF text = <<>> THEN <<>> ELSE [k \in 1..Len(results) |-> results[k].val]

(***************************************************************************)
(* Batches: a is up to MaxParts parts of BatchParts joined by a            *)
(* separator, b is a text of BatchTails.  kept tells whether               *)
(* parseCatalogue accepts the part, systems lists the systems of the       *)
(* entries a tail yields.                                                  *)
(***************************************************************************)
MaxParts == 2

BatchParts ==
  << [text |-> <<"O", "p", ".", " ", "2", "7">>, kept |-> TRUE, system |-> Some(<<"o", "p">>)],
     [text |-> <<" ", "B", "W", "V", " ", "1", "0", "0", "1">>, kept |-> TRUE, system |-> Some(<<"b", "w", "v">>)],
     [text |-> <<"1", "2", " ">>, kept |-> TRUE, system |-> None],
     [text |-> <<"n", "/", "a">>, kept |-> FALSE, system |-> None],
     [text |-> <<>>, kept |-> FALSE, system |-> None] >>

BatchTails ==
  << [text |-> <<>>, systems |-> <<>>],
     [text |-> <<"K", ".", " ", "3", "3", "1">>, systems |-> <<Some(<<"k">>)>>],
     [text |-> <<" ", "n", "/", "a", ",", " ", "R", "V", " ", "2", "6", "9">>, systems |-> <<Some(<<"r", "v">>)>>],
     [text |-> <<";", "D", ".", " ", "9", "6", "0", ";", " ", "7">>, systems |-> <<Some(<<"d">>), None>>],
     [text |-> <<"?">>, systems |-> <<>>] >>

InitBatch ==
  /\ pc = "start"
  /\ op = "none"
  /\ inp \in [parts : SeqsUpTo(1..Len(BatchParts), MaxParts),
              sep : {<<";">>, <<",", " ">>, <<";", "\t", " ">>},
              tail : 1..Len(BatchTails)]
  /\ out = None
  /\ NoObjects

DoParseAllCatalogues ==
  /\ pc = "start"
  /\ pc' = "done"
  /\ op' = "parseAllCatalogues"
  /\ out' = LET a == Flatten([k \in 1..Len(inp.parts) |->
                                 (IF k = 1 THEN <<>> ELSE inp.sep)
                                   \o BatchParts[inp.parts[k]].text])
                b == BatchTails[inp.tail].text
            IN [a |-> parseAllCatalogues(a),
                b |-> parseAllCatalogues(b),
                ab |-> parseAllCatalogues(a \o <<";", " ">> \o b)]
  /\ UNCHANGED inp
  /\ UNCHANGED objects

SpecBatch == InitBatch /\ [][DoParseAllCatalogues]_vars

BatchParsed == pc = "done" /\ op = "parseAllCatalogues"

\* the systems of the parts of a that parseCatalogue accepts, in order
RECURSIVE KeptSystems(_)
KeptSystems(parts) ==
  IF parts = <<>> THEN <<>>
  ELSE (IF BatchParts[Head(parts)].kept THEN <<BatchParts[Head(parts)].system>> ELSE <<>>)
         \o KeptSystems(Tail(parts))

SystemsOf(infos) == [k \in 1..Len(infos) |-> infos[k].system]

\* C17: parseAllCatalogues parses the segments between ";" / "," (blanks
\* after a separator skipped) one by one, drops those parseCatalogue
\* rejects and keeps the others in segment order; the batch of
\* a + "; " + b is the batch of a followed by the batch of b.
C17_BatchInOrder ==
  BatchParsed =>
    /\ SystemsOf(out.a) = KeptSystems(inp.parts)
    /\ SystemsOf(out.b) = BatchTails[inp.tail].systems
    /\ out.ab = out.a \o out.b

\* a rejected segment stands between two accepted ones, and b adds entries
C17_Witness ==
  /\ BatchParsed
  /\ Len(inp.parts) = 2 /\ BatchParts[inp.parts[1]].kept /\ BatchParts[inp.parts[2]].kept
  /\ inp.tail = 3
  /\ Len(out.ab) = 3

(***************************************************************************)
(* sortInstruments.  An InstrumentInfo is [raw, normalized].               *)
(***************************************************************************)
\* the object literal order of sortInstruments
INSTRUMENT_ORDER ==
  << [key |-> <<"f", "l", "u", "t", "e">>, value |-> 1], [key |-> <<"o", "b", "o", "e">>, value |-> 2],
     [key |-> <<"c", "l", "a", "r", "i", "n", "e", "t">>, value |-> 3], [key |-> <<"b", "a", "s", "s", "o", "o", "n">>, value |-> 4],
     [key |-> <<"h", "o", "r", "n">>, value |-> 5], [key |-> <<"t", "r", "u", "m", "p", "e", "t">>, value |-> 6],
     [key |-> <<"t", "r", "o", "m", "b", "o", "n", "e">>, value |-> 7], [key |-> <<"t", "u", "b", "a">>, value |-> 8],
     [key |-> <<"p", "i", "a", "n", "o">>, value |-> 10], [key |-> <<"o", "r", "g", "a", "n">>, value |-> 11],
     [key |-> <<"v", "i", "o", "l", "i", "n">>, value |-> 20], [key |-> <<"v", "i", "o", "l", "a">>, value |-> 21],
     [key |-> <<"c", "e", "l", "l", "o">>, value |-> 22], [key |-> <<"d", "o", "u", "b", "l", "e", "-", "b", "a", "s", "s">>, value |-> 23],
     [key |-> <<"g", "u", "i", "t", "a", "r">>, value |-> 24], [key |-> <<"h", "a", "r", "p">>, value |-> 25],
     [key |-> <<"v", "o", "i", "c", "e">>, value |-> 30], [key |-> <<"c", "h", "o", "i", "r">>, value |-> 31],
     [key |-> <<"o", "r", "c", "h", "e", "s", "t", "r", "a">>, value |-> 40], [key |-> <<"c", "h", "a", "m", "b", "e", "r", "-", "e", "n", "s", "e", "m", "b", "l", "e">>, value |-> 41] >>

\* the results [...instruments].sort(comparator) can give.  order[name] ?? 100
\* is a number for an own key and for a name that is no property at all; for
\* an inherited property it is a function or an object, the difference is
\* NaN and the comparator is not consistent, which leaves the order of the
\* result to the implementation.  With numbers the sort is stable.
sortInstruments(instruments) ==
  LET n == Len(instruments)
      own(name) == {i \in 1..Len(INSTRUMENT_ORDER) : INSTRUMENT_ORDER[i].key = name}
      isNumber(name) == own(name) # {} \/ ~IsSome(PropertyOf(INSTRUMENT_ORDER, name))
      order(name) == IF own(name) # {}
                     THEN INSTRUMENT_ORDER[CHOOSE i \in own(name) : TRUE].value
                     ELSE 100
      before(i, j) == \/ order(instruments[i].normalized) < order(instruments[j].normalized)
                      \/ /\ order(instruments[i].normalized) = order(instruments[j].normalized)
                         /\ i < j
      place(i) == 1 + Cardinality({j \in 1..n : before(j, i)})
      stable == [k \in 1..n |-> instruments[CHOOSE i \in 1..n : place(i) = k]]
  IN IF \A i \in 1..n : isNumber(instruments[i].normalized)
     THEN {stable}
     ELSE {[k \in 1..n |-> instruments[p[k]]] : p \in Permutations(1..n)}

(***************************************************************************)
(* Instrument lists: up to MaxInstruments entries of SortEntries; rank is  *)
(* the score-order rank of the normalized name, 100 standing for "none".   *)
(***************************************************************************)
MaxInstruments == 3

SortEntries ==
  << [raw |-> <<"f", "l", "u", "t", "e">>, normalized |-> <<"f", "l", "u", "t", "e">>, rank |-> 1],
     [raw |-> <<"F", "l", ".">>, normalized |-> <<"f", "l", "u", "t", "e">>, rank |-> 1],
     [raw |-> <<"v", "i", "o", "l", "i", "n">>, normalized |-> <<"v", "i", "o", "l", "i", "n">>, rank |-> 20],
     [raw |-> <<"t", "r", "u", "m", "p", "e", "t">>, normalized |-> <<"t", "r", "u", "m", "p", "e", "t">>, rank |-> 6],
     [raw |-> <<"k", "a", "z", "o", "o">>, normalized |-> <<"k", "a", "z", "o", "o">>, rank |-> 100],
     [raw |-> <<"b", "a", "n", "j", "o">>, normalized |-> <<"b", "a", "n", "j", "o">>, rank |-> 100],
     [raw |-> <<"c", "o", "n", "s", "t", "r", "u", "c", "t", "o", "r">>, normalized |-> <<"c", "o", "n", "s", "t", "r", "u", "c", "t", "o", "r">>, rank |-> 100] >>

InitSort ==
  /\ pc = "start"
  /\ op = "none"
  /\ inp \in SeqsUpTo(1..Len(SortEntries), MaxInstruments)
  /\ out = None
  /\ NoObjects

\* out holds the result and the argument as it is after the call
DoSortInstruments ==
  /\ pc = "start"
  /\ pc' = "done"
  /\ op' = "sortInstruments"
  /\ LET instruments == [k \in 1..Len(inp) |->
                            [raw |-> SortEntries[inp[k]].raw,
                             normalized |-> SortEntries[inp[k]].normalized]]
     IN \E sorted \in sortInstruments(instruments) :
          out' = [sorted |-> sorted, instruments |-> instruments]
  /\ UNCHANGED inp
  /\ UNCHANGED objects

SpecSort == InitSort /\ [][DoSortInstruments]_vars

\* C18: sortInstruments returns a permutation of its input in non-decreasing
\* rank of the normalized names, names without a rank last, entries of
\* equal rank in their input order; the input is left as it was.
C18_StableRankOrder ==
  (pc = "done" /\ op = "sortInstruments") =>
    LET n == Len(inp)
        rank(e) == (CHOOSE row \in {SortEntries[i] : i \in 1..Len(SortEntries)} :
                      row.raw = e.raw).rank
    IN /\ Len(out.instruments) = n
       /\ \A k \in 1..n : out.instruments[k].raw = SortEntries[inp[k]].raw
       /\ Len(out.sorted) = n
       /\ \E p \in Permutations(1..n) :
            /\ \A k \in 1..n : out.sorted[k] = out.instruments[p[k]]
            /\ \A j, k \in 1..n :
                 j < k => \/ rank(out.sorted[j]) < rank(out.sorted[k])
                          \/ /\ rank(out.sorted[j]) = rank(out.sorted[k])
                             /\ p[j] < p[k]

(***************************************************************************)
(* The builders on any page and any slug: the page opened and closed by    *)
(* balanced or unbalanced brackets or by none, the slug any row of         *)
(* PageSlugs.                                                              *)
(***************************************************************************)
InitTotal ==
  /\ pc = "start"
  /\ op = "none"
  /\ inp \in [open : {<<>>, <<"{", "{">>, <<"{", "{", "{", "{">>, <<"[", "[">>},
              template : 1..Len(PageTemplates),
              fields : SeqsUpTo({i \in 1..Len(PageFields) :
                                  PageFields[i].field \in {"title", "score"}},
                                MaxFields),
              close : {<<>>, <<"}", "}">>, <<"]", "]", "}", "}">>},
              slug : 1..Len(PageSlugs),
              composer : {None}]
  /\ out = None
  /\ NoObjects

DoParseScoreWikitext ==
  /\ pc = "start"
  /\ pc' = "done"
  /\ op' = "parseScoreWikitext"
  /\ out' = parseScoreWikitext(PageText(inp), PageSlugs[inp.slug].slug)
  /\ UNCHANGED inp
  /\ UNCHANGED objects

SpecTotal ==
  InitTotal /\ [][DoParseComposerWikitext \/ DoParseWorkWikitext \/ DoParseScoreWikitext]_vars

\* C20: on every page text and every slug or filename, each of the three
\* builders returns a result with its data and its list of warnings; none
\* raises an error.
C20_BuildersTotal ==
  pc = "done" => /\ "error" \notin DOMAIN out
                 /\ "warnings" \in DOMAIN out

(***************************************************************************)
(* Cache: an in-memory store of entries [data, timestamp] by key, with a   *)
(* time-to-live ttl.  The operations read the clock now and the store;     *)
(* each gives the value it returns and the store it leaves.                *)
(***************************************************************************)
Cache_get_ExpiresAtTtl(key, ttl) ==
  IF key \notin DOMAIN store
  THEN [value |-> None, store |-> store]
  ELSE IF now - store[key].timestamp >= ttl
       THEN [value |-> None,
             store |-> [k \in DOMAIN store \ {key} |-> store[k]]]
       ELSE [value |-> store[key].data, store |-> store]

Cache_get(key, ttl) ==
  IF key \notin DOMAIN store
  THEN [value |-> None, store |-> store]
  ELSE IF now - store[key].timestamp > ttl
       THEN [value |-> None,
             store |-> [k \in DOMAIN store \ {key} |-> store[k]]]
       ELSE [value |-> store[key].data, store |-> store]

Cache_set(key, value) ==
  [k \in DOMAIN store \cup {key} |->
     IF k = key THEN [data |-> value, timestamp |-> now] ELSE store[k]]

Cache_has(key, ttl) ==
  [value |-> Cache_get(key, ttl).value # None, store |-> Cache_get(key, ttl).store]

Cache_delete(key) ==
  [value |-> key \in DOMAIN store,
   store |-> [k \in DOMAIN store \ {key} |-> store[k]]]

Cache_prune(ttl) ==
  LET expired == {k \in DOMAIN store : now - store[k].timestamp > ttl}
  IN [value |-> Cardinality(expired),
      store |-> [k \in DOMAIN store \ expired |-> store[k]]]

(***************************************************************************)
(* A cache under any sequence of operations.  The time-to-live is drawn at *)
(* construction; the clock advances between operations up to MaxTime; log  *)
(* records the set, delete and clear operations with their times, at most *)
(* MaxWrites of them.                                                      *)
(***************************************************************************)
MaxTime == 2

MaxTtl == 1

MaxWrites == 2

CacheKeys == {"k1", "k2"}

CacheValues == {Some("a"), None}

InitCache ==
  /\ pc = "run"
  /\ op = "new Cache"
  /\ inp \in [ttl : 0..MaxTtl]
  /\ out = None
  /\ now = 0
  /\ store = <<>>
  /\ log = <<>>
  /\ lastRequestTime = 0
  /\ requestQueue = <<>>
  /\ requests = <<>>
  /\ browseStart = 0
  /\ browseResult = <<>>

\* what the operations of a cache leave alone
CacheFrame == UNCHANGED <<pc, inp, lastRequestTime, requestQueue, requests,
                          browseStart, browseResult>>

Tick ==
  /\ now < MaxTime
  /\ now' = now + 1
  /\ op' = "tick"
  /\ UNCHANGED <<pc, inp, out, store, lastRequestTime, requestQueue,
                 requests, log, browseStart, browseResult>>

DoGet ==
  \E key \in CacheKeys :
    /\ op' = "get"
    /\ out' = [key |-> key, value |-> Cache_get(key, inp.ttl).value]
    /\ store' = Cache_get(key, inp.ttl).store
    /\ UNCHANGED <<now, log>>
    /\ CacheFrame

DoSet ==
  \E key \in CacheKeys, value \in CacheValues :
    /\ Len(log) < MaxWrites
    /\ op' = "set"
    /\ out' = None
    /\ store' = Cache_set(key, value)
    /\ log' = Append(log, [op |-> "set", key |-> key, value |-> value, time |-> now])
    /\ UNCHANGED now
    /\ CacheFrame

DoHas ==
  \E key \in CacheKeys :
    /\ op' = "has"
    /\ out' = [key |-> key, value |-> Cache_has(key, inp.ttl).value]
    /\ store' = Cache_has(key, inp.ttl).store
    /\ UNCHANGED <<now, log>>
    /\ CacheFrame

DoDelete ==
  \E key \in CacheKeys :
    /\ Len(log) < MaxWrites
    /\ op' = "delete"
    /\ out' = [key |-> key, value |-> Cache_delete(key).value]
    /\ store' = Cache_delete(key).store
    /\ log' = Append(log, [op |-> "delete", key |-> key, value |-> None, time |-> now])
    /\ UNCHANGED now
    /\ CacheFrame

DoClear ==
  /\ Len(log) < MaxWrites
  /\ op' = "clear"
  /\ out' = None
  /\ store' = <<>>
  /\ log' = Append(log, [op |-> "clear", key |-> "", value |-> None, time |-> now])
  /\ UNCHANGED now
  /\ CacheFrame

DoPrune ==
  /\ op' = "prune"
  /\ out' = [value |-> Cache_prune(inp.ttl).value, size |-> Cardinality(DOMAIN store)]
  /\ store' = Cache_prune(inp.ttl).store
  /\ UNCHANGED <<now, log>>
  /\ CacheFrame

SpecCache ==
  InitCache /\ [][Tick \/ DoGet \/ DoSet \/ DoHas \/ DoDelete \/ DoClear \/ DoPrune]_vars

\* the positions in log of the set, delete and clear operations on key k
WritesOf(k) == {i \in 1..Len(log) : log[i].op = "clear" \/ log[i].key = k}

\* the last operation on key k is a set: its record in log
LastSet(k) ==
  IF WritesOf(k) = {} THEN None
  ELSE LET w == log[CHOOSE i \in WritesOf(k) : \A j \in WritesOf(k) : j <= i]
       IN IF w.op = "set" THEN Some(w) ELSE None

\* key k was set, not deleted or cleared since, and is no older than ttl
Live(k) == IsSome(LastSet(k)) /\ now - LastSet(k).val.time <= inp.ttl

\* what get(k) has to return
Expected(k) == IF Live(k) THEN LastSet(k).val.value ELSE None

MaxCalls == 2

\* createCacheKey('http', fullUrl)
createCacheKey(prefix, part) == <<prefix, ":", part>>

\* the request options destructured by request(), the full URL already built
RequestOptions ==
  { [url |-> "u1", method |-> "GET", skipCache |-> FALSE],
    [url |-> "u2", method |-> "GET", skipCache |-> FALSE],
    [url |-> "u1", method |-> "GET", skipCache |-> TRUE],
    [url |-> "u1", method |-> "POST", skipCache |-> FALSE] }

\* what the network answers to a fetch: a status, a failure to connect, or
\* a body that is not JSON
FetchOutcomes == {"200", "404", "429", "network", "json"}

\* handleErrorResponse and transformError: the error that request() throws
transformError(outcome) ==
  CASE outcome = "404" -> "NotFoundError"
    [] outcome = "429" -> "RateLimitError"
    [] outcome = "abort" -> "TimeoutError"
    [] OTHER -> "NetworkError"

\* method === 'GET' && this.config.cache && !skipCache
Cacheable_AnyMethod(o) == inp.cache /\ ~o.skipCache

Cacheable(o) == o.method = "GET" /\ inp.cache /\ ~o.skipCache

\* this.requestQueue.then(requestFn): the request of call c runs once every
\* request chained before it has settled
QueueSettled_Any(c) == \E i \in 1..Len(requestQueue) : requestQueue[i] = c

QueueSettled(c) == requestQueue # <<>> /\ Head(requestQueue) = c

InitHttp ==
  /\ inp \in [cache : BOOLEAN, cacheTTL : {MaxTtl},
              rateLimitDelay : {0, 1}, timeout : {1}]
  /\ pc = [c \in 1..MaxCalls |-> "idle"]
  /\ op = "new HttpClient"
  /\ out = [c \in 1..MaxCalls |-> None]
  /\ now = inp.rateLimitDelay
  /\ store = <<>>
  /\ lastRequestTime = 0
  /\ requestQueue = <<>>
  /\ requests = <<>>
  /\ log = <<>>
  /\ browseStart = 0
  /\ browseResult = <<>>

\* what the operations of a client leave alone
HttpFrame == UNCHANGED <<inp, log, browseStart, browseResult>>

\* request(): the cache lookup, then enqueueRequest
DoRequest ==
  \E o \in RequestOptions :
    LET c == Len(requests) + 1
        cached == Cache_get(createCacheKey("http", o.url), inp.cacheTTL)
        hit == Cacheable(o) /\ cached.value # None
    IN /\ c <= MaxCalls
       /\ op' = "request"
       /\ requests' = Append(requests, [url |-> o.url, method |-> o.method,
                                        skipCache |-> o.skipCache, timer |-> 0,
                                        ahead |-> Len(requestQueue)])
       /\ store' = IF Cacheable(o) THEN cached.store ELSE store
       /\ pc' = [pc EXCEPT ![c] = IF hit THEN "done" ELSE "queued"]
       /\ out' = [out EXCEPT ![c] = IF hit THEN cached.value ELSE @]
       /\ requestQueue' = IF hit THEN requestQueue ELSE Append(requestQueue, c)
       /\ UNCHANGED <<now, lastRequestTime>>
       /\ HttpFrame

\* waitForRateLimit has waited: the fetch of call c starts
BeginFetch(c) ==
  /\ lastRequestTime' = now
  /\ pc' = [pc EXCEPT ![c] = "fetching"]
  /\ requests' = [requests EXCEPT ![c].timer = now + inp.timeout]

\* the queue has reached the request of call c: waitForRateLimit
DoStartRequest ==
  \E c \in 1..Len(requests) :
    LET delay == inp.rateLimitDelay - (now - lastRequestTime)
    IN /\ pc[c] = "queued"
       /\ QueueSettled(c)
       /\ op' = "waitForRateLimit"
       /\ IF delay > 0
          THEN /\ pc' = [pc EXCEPT ![c] = "waiting"]
               /\ requests' = [requests EXCEPT ![c].timer = now + delay]
               /\ UNCHANGED lastRequestTime
          ELSE BeginFetch(c)
       /\ UNCHANGED <<out, now, store, requestQueue>>
       /\ HttpFrame

\* the delay of waitForRateLimit has elapsed
DoRateLimitElapsed ==
  \E c \in 1..Len(requests) :
    /\ pc[c] = "waiting"
    /\ now >= requests[c].timer
    /\ op' = "fetch"
    /\ BeginFetch(c)
    /\ UNCHANGED <<out, now, store, requestQueue>>
    /\ HttpFrame

\* the promise of call c settles with the response or the error, and the
\* queue moves on
Settle(c, outcome) ==
  LET response == [data |-> c, status |-> 200]
      ok == outcome = "200"
  IN /\ pc' = [pc EXCEPT ![c] = "done"]
     /\ out' = [out EXCEPT ![c] = IF ok THEN response
                                   ELSE [error |-> transformError(outcome)]]
     /\ store' = IF ok /\ Cacheable(requests[c])
                 THEN Cache_set(createCacheKey("http", requests[c].url), response)
                 ELSE store
     /\ requestQueue' = SelectSeq(requestQueue, LAMBDA q : q # c)
     /\ UNCHANGED <<now, lastRequestTime, requests>>
     /\ HttpFrame

\* the network answers the fetch of a running request
DoResponse ==
  \E c \in 1..Len(requests), outcome \in FetchOutcomes :
    /\ pc[c] = "fetching"
    /\ op' = "response"
    /\ Settle(c, outcome)

\* the timer of createTimeoutController aborts the fetch
DoAbort ==
  \E c \in 1..Len(requests) :
    /\ pc[c] = "fetching"
    /\ now >= requests[c].timer
    /\ op' = "abort"
    /\ Settle(c, "abort")

DoClearCache ==
  /\ op' = "clearCache"
  /\ store' = <<>>
  /\ UNCHANGED <<pc, out, now, lastRequestTime, requestQueue, requests>>
  /\ HttpFrame

SpecHttp ==
  InitHttp /\ [][Tick \/ DoRequest \/ DoStartRequest \/ DoRateLimitElapsed
                   \/ DoResponse \/ DoAbort \/ DoClearCache]_vars

\* the calls made whose promise has not settled, in the order they were made
Pending == SelectSeq([c \in 1..Len(requests) |-> c], LAMBDA c : pc[c] # "done")

\* C21: the request of a call waits for its delay or fetches only when
\* every call made before it has settled; the queue holds exactly the
\* unsettled calls in the order they were made, and its head can always
\* take its next step or waits for a timer, whatever the requests before it
\* settled with; a call is rejected only with the error of its own fetch.
C21_SerialQueue ==
  /\ \A c1 \in 1..Len(requests), c2 \in 1..Len(requests) :
       c1 < c2 /\ pc[c2] \in {"waiting", "fetching"} => pc[c1] = "done"
  /\ requestQueue = Pending
  /\ \A c \in 1..MaxCalls :
       /\ pc[c] # "done" => out[c] = None
       /\ "error" \in DOMAIN out[c] => pc[c] = "done" /\ requests[c].timer > 0
  /\ requestQueue # <<>> =>
       \/ ENABLED DoStartRequest
       \/ ENABLED DoResponse
       \/ pc[Head(requestQueue)] = "waiting"

\* the second call was made while the first was pending; the first was
\* rejected and the second answered by its own fetch
C21_Witness ==
  /\ Len(requests) >= 2
  /\ requests[2].ahead = 1
  /\ "error" \in DOMAIN out[1]
  /\ out[2] = [data |-> 2, status |-> 200]

\* the cache holds an entry for the URL that is no older than cacheTTL
Unexpired(url) ==
  /\ createCacheKey("http", url) \in DOMAIN store
  /\ now - store[createCacheKey("http", url)].timestamp <= inp.cacheTTL

\* C22: a GET with caching enabled and skipCache false whose URL has an
\* unexpired entry settles at once with the cached response and is not
\* queued; an entry is written only by a request that settles with a
\* response, for a GET with caching enabled and skipCache false, under the
\* key of its URL; clearCache leaves the cache empty.
C22_Caching ==
  [][ /\ op' = "request" =>
           LET c == Len(requests')
               o == requests'[c]
           IN o.method = "GET" /\ inp.cache /\ ~o.skipCache /\ Unexpired(o.url) =>
                /\ pc'[c] = "done"
                /\ out'[c] = store[createCacheKey("http", o.url)].data
                /\ requestQueue' = requestQueue
                /\ o.timer = 0
      /\ \A k \in DOMAIN store' :
           \/ k \in DOMAIN store /\ store'[k] = store[k]
           \/ \E c \in 1..Len(requests) :
                /\ pc[c] = "fetching" /\ pc'[c] = "done"
                /\ "error" \notin DOMAIN out'[c]
                /\ requests[c].method = "GET" /\ inp.cache /\ ~requests[c].skipCache
                /\ k = createCacheKey("http", requests[c].url)
                /\ store'[k] = [data |-> out'[c], timestamp |-> now]
      /\ op' = "clearCache" => store' = <<>>
    ]_vars

\* the second call was answered from the cache with the response to the
\* first, without a fetch
C22_Witness ==
  /\ Len(requests) >= 2
  /\ out[1] = [data |-> 1, status |-> 200]
  /\ pc[2] = "done"
  /\ out[2] = out[1]
  /\ requests[2].timer = 0
  /\ DOMAIN store = {createCacheKey("http", requests[1].url)}

\* C29: no fetch starts for a GET with caching enabled and skipCache false
\* while the cache holds an unexpired entry for its URL.
C29_OneFetchPerUrl ==
  \A c \in 1..Len(requests) :
    /\ pc[c] = "fetching"
    /\ requests[c].timer = now + inp.timeout
    /\ requests[c].method = "GET" /\ inp.cache /\ ~requests[c].skipCache
    => ~Unexpired(requests[c].url)

\* C27: every year that parseYear returns, and every start and end that
\* parseYearRange returns, is greater than 0 and less than 3000.
C27_PlausibleYears ==
  LET Plausible(y) == IsSome(y) => y.val > 0 /\ y.val < 3000
  IN /\ YearParsed => Plausible(out)
     /\ YearRangeParsed => /\ Plausible(out.range.start)
                           /\ Plausible(out.range.end)

(***************************************************************************)
(* parseDifficulty, which parseWorkWikitext applies to the difficulty (or  *)
(* henle) parameter of the template.                                       *)
(***************************************************************************)
getDifficultyDescription(level) ==
  CASE level = 1 -> "Very Easy"
    [] level = 2 -> "Easy"
    [] level = 3 -> "Moderately Easy"
    [] level = 4 -> "Moderate"
    [] level = 5 -> "Moderately Difficult"
    [] level = 6 -> "Difficult"
    [] level = 7 -> "Very Difficult"
    [] level = 8 -> "Advanced"
    [] level = 9 -> "Virtuoso"
    [] OTHER -> "Unknown"

parseDifficulty(text) ==
  LET \* /(\d)/
      match == RegExpMatch(text, <<Grp(1, <<Ch(DigitSet)>>)>>)
      level == parseInt(match.caps[1].val)
      lower == toLowerCase(text)
      test(words) == \E k \in 1..Len(words) : RegExpMatch(lower, LitI(words[k])).ok
  IN IF text = <<>> THEN None
     ELSE IF match.ok /\ level >= 1 /\ level <= 9
     THEN Some([level |-> level, description |-> getDifficultyDescription(level)])
     \* /beginner|easy|elementary/i
     ELSE IF test(<<<<"b", "e", "g", "i", "n", "n", "e", "r">>, <<"e", "a", "s", "y">>, <<"e", "l", "e", "m", "e", "n", "t", "a", "r", "y">>>>)
     THEN Some([level |-> 2, description |-> "Elementary"])
     \* /intermediate/i
     ELSE IF test(<<<<"i", "n", "t", "e", "r", "m", "e", "d", "i", "a", "t", "e">>>>)
     THEN Some([level |-> 5, description |-> "Intermediate"])
     \* /advanced/i
     ELSE IF test(<<<<"a", "d", "v", "a", "n", "c", "e", "d">>>>)
     THEN Some([level |-> 7, description |-> "Advanced"])
     \* /virtuoso|professional/i
     ELSE IF test(<<<<"v", "i", "r", "t", "u", "o", "s", "o">>, <<"p", "r", "o", "f", "e", "s", "s", "i", "o", "n", "a", "l">>>>)
     THEN Some([level |-> 9, description |-> "Virtuoso"])
     ELSE None

(***************************************************************************)
(* Difficulty texts: up to MaxWords words of DifficultyWords joined by     *)
(* single spaces.  digit is the digit 1-9 that the word is, or 0; level is *)
(* the level of the severity keyword that the word is, or 0.               *)
(***************************************************************************)
MaxWords == 2

DifficultyWords ==
  << [text |-> <<"5">>, digit |-> 5, level |-> 0],
     [text |-> <<"8">>, digit |-> 8, level |-> 0],
     [text |-> <<"0">>, digit |-> 0, level |-> 0],
     [text |-> <<"B", "e", "g", "i", "n", "n", "e", "r">>, digit |-> 0, level |-> 2],
     [text |-> <<"i", "n", "t", "e", "r", "m", "e", "d", "i", "a", "t", "e">>, digit |-> 0, level |-> 5],
     [text |-> <<"a", "d", "v", "a", "n", "c", "e", "d">>, digit |-> 0, level |-> 7],
     [text |-> <<"V", "I", "R", "T", "U", "O", "S", "O">>, digit |-> 0, level |-> 9],
     [text |-> <<"e", "a", "s", "y">>, digit |-> 0, level |-> 0],
     [text |-> <<"p", "r", "o", "f", "e", "s", "s", "i", "o", "n", "a", "l">>, digit |-> 0, level |-> 0],
     [text |-> <<"h", "a", "r", "d">>, digit |-> 0, level |-> 0],
     [text |-> <<"H", "e", "n", "l", "e">>, digit |-> 0, level |-> 0] >>

InitDifficulty ==
  /\ pc = "start"
  /\ op = "none"
  /\ inp \in SeqsUpTo(1..Len(DifficultyWords), MaxWords)
  /\ out = None
  /\ NoObjects

DoParseDifficulty ==
  /\ pc = "start"
  /\ pc' = "done"
  /\ op' = "parseDifficulty"
  /\ out' = parseDifficulty(Flatten([k \in 1..Len(inp) |->
                                       (IF k = 1 THEN <<>> ELSE <<" ">>)
                                         \o DifficultyWords[inp[k]].text]))
  /\ UNCHANGED inp
  /\ UNCHANGED objects

SpecDifficulty == InitDifficulty /\ [][DoParseDifficulty]_vars

\* the descriptions of the Henle levels and of the severity keywords
HenleDescription ==
  <<"Very Easy", "Easy", "Moderately Easy", "Moderate", "Moderately Difficult",
    "Difficult", "Very Difficult", "Advanced", "Virtuoso">>

KeywordDescription ==
  [l \in {2, 5, 7, 9} |-> CASE l = 2 -> "Elementary" [] l = 5 -> "Intermediate"
                            [] l = 7 -> "Advanced" [] l = 9 -> "Virtuoso"]

\* C26: a text that begins with a digit 1-9 gives that level with its Henle
\* description; a text without such a leading digit gives the level and the
\* description of a severity keyword in it (beginner 2, intermediate 5,
\* advanced 7, virtuoso 9); any other text gives no difficulty; a level is
\* always in 1..9.
C26_Difficulty ==
  pc = "done" =>
    LET lead == IF inp = <<>> THEN 0 ELSE DifficultyWords[inp[1]].digit
        levels == {DifficultyWords[inp[k]].level : k \in 1..Len(inp)} \ {0}
    IN /\ IsSome(out) => out.val.level \in 1..9
       /\ IF lead > 0
          THEN out = Some([level |-> lead, description |-> HenleDescription[lead]])
          ELSE IF levels # {}
          THEN \E l \in levels : out = Some([level |-> l, description |-> KeywordDescription[l]])
          ELSE out = None

(***************************************************************************)
(* getInstrumentFamily, and normalizeInstrument applied to its own result. *)
(***************************************************************************)
\* the object literal families of getInstrumentFamily
INSTRUMENT_FAMILIES ==
  << [key |-> <<"v", "i", "o", "l", "i", "n">>, value |-> <<"s", "t", "r", "i", "n", "g", "s">>],
     [key |-> <<"v", "i", "o", "l", "a">>, value |-> <<"s", "t", "r", "i", "n", "g", "s">>],
     [key |-> <<"c", "e", "l", "l", "o">>, value |-> <<"s", "t", "r", "i", "n", "g", "s">>],
     [key |-> <<"d", "o", "u", "b", "l", "e", "-", "b", "a", "s", "s">>, value |-> <<"s", "t", "r", "i", "n", "g", "s">>],
     [key |-> <<"g", "u", "i", "t", "a", "r">>, value |-> <<"s", "t", "r", "i", "n", "g", "s">>],
     [key |-> <<"h", "a", "r", "p">>, value |-> <<"s", "t", "r", "i", "n", "g", "s">>],
     [key |-> <<"f", "l", "u", "t", "e">>, value |-> <<"w", "o", "o", "d", "w", "i", "n", "d", "s">>],
     [key |-> <<"o", "b", "o", "e">>, value |-> <<"w", "o", "o", "d", "w", "i", "n", "d", "s">>],
     [key |-> <<"c", "l", "a", "r", "i", "n", "e", "t">>, value |-> <<"w", "o", "o", "d", "w", "i", "n", "d", "s">>],
     [key |-> <<"b", "a", "s", "s", "o", "o", "n">>, value |-> <<"w", "o", "o", "d", "w", "i", "n", "d", "s">>],
     [key |-> <<"h", "o", "r", "n">>, value |-> <<"b", "r", "a", "s", "s">>],
     [key |-> <<"t", "r", "u", "m", "p", "e", "t">>, value |-> <<"b", "r", "a", "s", "s">>],
     [key |-> <<"t", "r", "o", "m", "b", "o", "n", "e">>, value |-> <<"b", "r", "a", "s", "s">>],
     [key |-> <<"t", "u", "b", "a">>, value |-> <<"b", "r", "a", "s", "s">>],
     [key |-> <<"p", "i", "a", "n", "o">>, value |-> <<"k", "e", "y", "b", "o", "a", "r", "d">>],
     [key |-> <<"o", "r", "g", "a", "n">>, value |-> <<"k", "e", "y", "b", "o", "a", "r", "d">>],
     [key |-> <<"v", "o", "i", "c", "e">>, value |-> <<"v", "o", "c", "a", "l">>],
     [key |-> <<"c", "h", "o", "i", "r">>, value |-> <<"v", "o", "c", "a", "l">>],
     [key |-> <<"o", "r", "c", "h", "e", "s", "t", "r", "a">>, value |-> <<"e", "n", "s", "e", "m", "b", "l", "e">>],
     [key |-> <<"c", "h", "a", "m", "b", "e", "r", "-", "e", "n", "s", "e", "m", "b", "l", "e">>, value |-> <<"e", "n", "s", "e", "m", "b", "l", "e">>] >>

\* families[instrument] ?? 'other'
getInstrumentFamily(instrument) ==
  IF IsSome(PropertyOf(INSTRUMENT_FAMILIES, instrument))
  THEN PropertyOf(INSTRUMENT_FAMILIES, instrument).val
  ELSE <<"o", "t", "h", "e", "r">>

\* normalizeInstrument(normalizeInstrument(raw)): a value that is not a
\* string has no method toLowerCase
DoNormalizeTwice ==
  /\ pc = "start"
  /\ pc' = "done"
  /\ op' = "normalizeInstrument twice"
  /\ out' = LET once == normalizeInstrument(InstrumentText(inp))
             IN [once |-> once,
                 twice |-> IF \E i \in 1..Len(OBJECT_PROTOTYPE) :
                                 once = OBJECT_PROTOTYPE[i].value
                           THEN [error |-> "TypeError: raw.toLowerCase is not a function"]
                           ELSE Some(normalizeInstrument(once))]
  /\ UNCHANGED inp
  /\ UNCHANGED objects

DoGetInstrumentFamily ==
  /\ pc = "start"
  /\ pc' = "done"
  /\ op' = "getInstrumentFamily"
  /\ out' = getInstrumentFamily(InstrumentText(inp))
  /\ UNCHANGED inp
  /\ UNCHANGED objects

SpecFamily == InitInstrument /\ [][DoNormalizeTwice \/ DoGetInstrumentFamily]_vars

\* the 20 canonical instrument names
KnownInstrument ==
  { <<"p", "i", "a", "n", "o">>,
    <<"v", "i", "o", "l", "i", "n">>,
    <<"v", "i", "o", "l", "a">>,
    <<"c", "e", "l", "l", "o">>,
    <<"d", "o", "u", "b", "l", "e", "-", "b", "a", "s", "s">>,
    <<"f", "l", "u", "t", "e">>,
    <<"o", "b", "o", "e">>,
    <<"c", "l", "a", "r", "i", "n", "e", "t">>,
    <<"b", "a", "s", "s", "o", "o", "n">>,
    <<"h", "o", "r", "n">>,
    <<"t", "r", "u", "m", "p", "e", "t">>,
    <<"t", "r", "o", "m", "b", "o", "n", "e">>,
    <<"t", "u", "b", "a">>,
    <<"v", "o", "i", "c", "e">>,
    <<"o", "r", "g", "a", "n">>,
    <<"g", "u", "i", "t", "a", "r">>,
    <<"h", "a", "r", "p">>,
    <<"o", "r", "c", "h", "e", "s", "t", "r", "a">>,
    <<"c", "h", "a", "m", "b", "e", "r", "-", "e", "n", "s", "e", "m", "b", "l", "e">>,
    <<"c", "h", "o", "i", "r">> }

\* the seven instrument families
InstrumentFamilies ==
  { <<"s", "t", "r", "i", "n", "g", "s">>,
    <<"w", "o", "o", "d", "w", "i", "n", "d", "s">>,
    <<"b", "r", "a", "s", "s">>,
    <<"k", "e", "y", "b", "o", "a", "r", "d">>,
    <<"v", "o", "c", "a", "l">>,
    <<"e", "n", "s", "e", "m", "b", "l", "e">>,
    <<"o", "t", "h", "e", "r">> }

\* C28: for a non-empty text normalizeInstrument returns a canonical
\* instrument name or the text trimmed, and returns that same value when
\* applied to it again; getInstrumentFamily returns one of the seven
\* families for every text.
C28_NormalForm ==
  /\ (pc = "done" /\ op = "normalizeInstrument twice" /\ InstrumentText(inp) # <<>>) =>
       /\ out.once \in KnownInstrument \/ out.once = trim(InstrumentText(inp))
       /\ out.twice = Some(out.once)
  /\ (pc = "done" /\ op = "getInstrumentFamily") => out \in InstrumentFamilies

(***************************************************************************)
(* ScoreService.getWorkScores: the scores of a work page, from its file    *)
(* templates and from the PMLP file names its text mentions, and from the  *)
(* category of the work when the page gives none.                          *)
(***************************************************************************)

\* [...wikitext.matchAll(/PMLP\d+[-_][^|\s}]+\.pdf/gi)].map(m => m[0]), from
\* position from on.  A match starts with PMLP and a whole run of digits, then
\* - or _, and ends with the last .pdf of the run of characters other than
\* | } and white space that follows, one such character at least before it.
RECURSIVE PmlpFiles(_, _)
PmlpFiles(wikitext, from) ==
  LET other == {wikitext[k] : k \in 1..Len(wikitext)} \ DigitSet
      ends(d) == {j \in d + 2..NextDelimiter(wikitext, d + 1, {"|", "}"} \cup WhiteSpace, {}) - 4 :
                    StartsAtCI(wikitext, j, <<".", "p", "d", "f">>)}
      pdfs(i) == IF ~StartsAtCI(wikitext, i, <<"P", "M", "L", "P">>) THEN {}
                 ELSE UNION {IF d > i + 4 /\ CharAt(wikitext, d) \in {"-", "_"} THEN ends(d) ELSE {} :
                               d \in {NextDelimiter(wikitext, i + 4, other, {})}}
      rest(found) ==
        LET starts == {i \in DOMAIN found : found[i] # {}}
        IN IF starts = {} THEN <<>>
           ELSE LET i == CHOOSE a \in starts : \A c \in starts : a <= c
                    j == CHOOSE a \in found[i] : \A c \in found[i] : a >= c
                IN <<SubSeq(wikitext, i, j + 3)>> \o PmlpFiles(wikitext, j + 4)
  IN CHOOSE r \in {rest(found) : found \in {[i \in from..Len(wikitext) |-> pdfs(i)]}} : TRUE

\* the for loop over fileTemplates; [error] when parseScoreWikitext throws
RECURSIVE TemplateScores(_, _, _)
TemplateScores(fileTemplates, i, scores) ==
  IF i > Len(fileTemplates) THEN [scores |-> scores]
  ELSE LET filename == FirstParam(fileTemplates[i].params, <<<<"f", "i", "l", "e", "n", "a", "m", "e">>, <<"n", "a", "m", "e">>>>)
           push(parsed) ==
             IF "error" \in DOMAIN parsed THEN [scores |-> scores, error |-> parsed.error]
             ELSE CHOOSE r \in {TemplateScores(fileTemplates, i + 1, pushed) :
                                  pushed \in {Append(scores, parsed)}} : TRUE
       IN IF filename = <<>> THEN TemplateScores(fileTemplates, i + 1, scores)
          ELSE CHOOSE r \in {push(parsed) :
                               parsed \in {parseScoreWikitext(fileTemplates[i].raw, filename)}} : TRUE

\* the for loop over pmlpFiles
RECURSIVE PmlpScores(_, _, _)
PmlpScores(pmlpFiles, i, scores) ==
  IF i > Len(pmlpFiles) THEN [scores |-> scores]
  ELSE IF \E s \in 1..Len(scores) : scores[s].filename = pmlpFiles[i]
  THEN PmlpScores(pmlpFiles, i + 1, scores)
  ELSE LET push(parsed) ==
             IF "error" \in DOMAIN parsed THEN [scores |-> scores, error |-> parsed.error]
             ELSE CHOOSE r \in {PmlpScores(pmlpFiles, i + 1, pushed) :
                                  pushed \in {Append(scores, parsed)}} : TRUE
       IN CHOOSE r \in {push(parsed) : parsed \in {parseScoreWikitext(<<>>, pmlpFiles[i])}} : TRUE

\* getScoresFromCategory, members the titles the API lists (None when the
\* call fails); a member gives the score of its image info or, without one,
\* the minimal score of its file name, with the same filename either way
getScoresFromCategory(members) ==
  IF ~IsSome(members)
  THEN [data |-> <<>>, warnings |-> <<"Could not fetch scores from category">>]
  ELSE LET filenames == [m \in 1..Len(members.val) |->
                           IF startsWith(members.val[m], <<"F", "i", "l", "e", ":">>)
                           THEN SliceFrom(members.val[m], 6) ELSE members.val[m]]
           pdf == SelectSeq(filenames, LAMBDA f : endsWith(toLowerCase(f), <<".", "p", "d", "f">>))
       IN [data |-> [m \in 1..Len(pdf) |-> parseScoreWikitext(<<>>, pdf[m])],
           warnings |-> <<>>]

\* the filter of fileTemplates
IsFileTemplate(t) ==
  \E word \in {<<"f", "i", "l", "e">>, <<"s", "c", "o", "r", "e">>, <<"#", "f", "t", "e">>, <<"#", "s", "f", "e">>} :
    \E i \in 1..Len(t.name) : StartsAt(toLowerCase(t.name), i, word)

\* the two loops of getWorkScores over the file templates and the PMLP names
ScoresOfPage(wikitext) ==
  CHOOSE r \in {IF "error" \in DOMAIN fromTemplates THEN fromTemplates
                ELSE PmlpScores(pmlpFiles, 1, fromTemplates.scores) :
                  fromTemplates \in {TemplateScores(fileTemplates, 1, <<>>) :
                                       fileTemplates \in {SelectSeq(extractTemplates(wikitext), IsFileTemplate)}},
                  pmlpFiles \in {PmlpFiles(wikitext, 1)}} : TRUE

\* getWorkScores for a page with this wikitext, members the category listing
getWorkScores(wikitext, members) ==
  IF wikitext = <<>> THEN [error |-> "NotFoundError"]
  ELSE LET scoresOf(found) ==
             IF "error" \in DOMAIN found
             THEN [data |-> found.scores, warnings |-> <<"Error fetching scores for work">>]
             ELSE IF found.scores = <<>>
             THEN getScoresFromCategory(members)
             ELSE [data |-> found.scores, warnings |-> <<>>]
       IN CHOOSE r \in {scoresOf(found) : found \in {ScoresOfPage(wikitext)}} : TRUE

(***************************************************************************)
(* Inputs of getWorkScores: a page of at most MaxPieces pieces, one on a   *)
(* line, and the listing of the category of the work.                      *)
(***************************************************************************)
MaxPieces == 2

ScorePieces ==
  << <<"{", "{", "F", "i", "l", "e", "|", "f", "i", "l", "e", "n", "a", "m", "e", "=", "P", "M", "L", "P", "1", "-", "a", ".", "p", "d", "f", "}", "}">>,
     <<"{", "{", "F", "i", "l", "e", "|", "f", "i", "l", "e", "n", "a", "m", "e", "=", "P", "M", "L", "P", "1", "-", "a", ".", "p", "d", "f", "|", "e", "d", "i", "t", "o", "r", "=", "E", "}", "}">>,
     <<"P", "M", "L", "P", "1", "-", "a", ".", "p", "d", "f">>,
     <<"P", "M", "L", "P", "2", "_", "b", ".", "P", "D", "F">>,
     <<"{", "{", "S", "c", "o", "r", "e", "|", "n", "a", "m", "e", "=", "c", ".", "p", "d", "f", "}", "}">>,
     <<"{", "{", "W", "o", "r", "k", "|", "t", "i", "t", "l", "e", "=", "T", "}", "}">>,
     <<"{", "{", "F", "i", "l", "e", "|", "f", "i", "l", "e", "n", "a", "m", "e", "=", "}", "}">>,
     <<"[", "[", "F", "i", "l", "e", ":", "P", "M", "L", "P", "3", "-", "d", ".", "p", "d", "f", "|", "t", "h", "u", "m", "b", "]", "]">>,
     <<"P", "M", "L", "P", "x", "-", "e", ".", "p", "d", "f">> >>

CategoryListings ==
  { None, Some(<<>>), Some(<<<<"F", "i", "l", "e", ":", "P", "M", "L", "P", "9", "-", "z", ".", "p", "d", "f">>, <<"F", "i", "l", "e", ":", "c", "o", "v", "e", "r", ".", "p", "n", "g">>>>) }

\* the wikitext of a page given as a sequence of piece numbers
ScoreText(pieces) ==
  Flatten([i \in 1..Len(pieces) |->
             (IF i > 1 THEN <<"\n">> ELSE <<>>) \o ScorePieces[pieces[i]]])

InitScores ==
  /\ pc = "start"
  /\ op = "none"
  /\ inp \in [pieces : SeqsUpTo(1..Len(ScorePieces), MaxPieces), members : CategoryListings]
  /\ out = None
  /\ NoObjects

DoGetWorkScores ==
  /\ pc = "start"
  /\ pc' = "done"
  /\ op' = "getWorkScores"
  /\ \E wikitext \in {ScoreText(inp.pieces)} : out' = getWorkScores(wikitext, inp.members)
  /\ UNCHANGED inp
  /\ UNCHANGED objects

SpecScores == InitScores /\ [][DoGetWorkScores]_vars

\* C24: the scores getWorkScores returns for a page never hold two scores with
\* the same filename, whether the filenames come from file templates, from
\* PMLP file references or from both.
C24_NoDuplicateFiles ==
  (pc = "done" /\ op = "getWorkScores" /\ "data" \in DOMAIN out) =>
    \A i, j \in 1..Len(out.data) :
      i # j => out.data[i].filename # out.data[j].filename

(***************************************************************************)
(* CustomApi.browseAllPeople: the async generator that pages through       *)
(* listPeople.  pc is the position of the generator (at: call, yield,      *)
(* done or threw; i: the person of the page the for loop is at),           *)
(* browseStart the local start, browseResult the result of the last        *)
(* listPeople call, out the people yielded so far and log the calls of     *)
(* listPeople made so far, each with its start and its result.             *)
(***************************************************************************)
MaxTotal == 3

MaxLimit == 2

DefaultBrowseLimit == 50

\* the people a response can hold
People == {"p", "q"}

\* options.limit ?? 50
BrowseLimit == IF IsSome(inp.limit) THEN inp.limit.val ELSE DefaultBrowseLimit

\* start += result.people.length, with the page size in its place
NextStart_ByLimit(start, people) == start + BrowseLimit

\* start += result.people.length
NextStart(start, people) == start + Len(people)

\* listPeople for a response holding these people and metadata
listPeople(start, response) ==
  LET total == IF IsSome(response.totalpeople) THEN response.totalpeople.val ELSE 0
  IN [people |-> response.people,
      total |-> total,
      hasMore |-> start + Len(response.people) < total]

\* the responses of the server to a request for at most limit people
Responses(limit) ==
  [people : SeqsUpTo(People, IF limit < MaxLimit THEN limit ELSE MaxLimit),
   totalpeople : {None} \cup {Some(t) : t \in 0..MaxTotal}]

InitBrowse ==
  /\ pc = [at |-> "call", i |-> 0]
  /\ op = "browseAllPeople"
  /\ inp \in [limit : {None} \cup {Some(l) : l \in 1..MaxLimit}]
  /\ out = <<>>
  /\ NoObjects

BrowseFrame == UNCHANGED <<inp, now, store, lastRequestTime, requestQueue, requests>>

\* const result = await this.listPeople({ ...options, start, limit })
DoListPeople ==
  /\ pc.at = "call"
  /\ \E response \in Responses(BrowseLimit) :
       /\ browseResult' = listPeople(browseStart, response)
       /\ log' = Append(log, [start |-> browseStart] @@ listPeople(browseStart, response))
  /\ pc' = [at |-> "yield", i |-> 1]
  /\ op' = "listPeople"
  /\ UNCHANGED <<out, browseStart>>
  /\ BrowseFrame

\* listPeople rejects: the request fails or a slug does not decode
DoListPeopleThrows ==
  /\ pc.at = "call"
  /\ pc' = [at |-> "threw", i |-> 0]
  /\ op' = "throw"
  /\ UNCHANGED <<out, browseStart, browseResult, log>>
  /\ BrowseFrame

\* yield person
DoYield ==
  /\ pc.at = "yield"
  /\ pc.i <= Len(browseResult.people)
  /\ out' = Append(out, browseResult.people[pc.i])
  /\ pc' = [at |-> "yield", i |-> pc.i + 1]
  /\ op' = "yield"
  /\ UNCHANGED <<browseStart, browseResult, log>>
  /\ BrowseFrame

\* if (!result.hasMore || result.people.length === 0) break
DoBreak ==
  /\ pc.at = "yield"
  /\ pc.i > Len(browseResult.people)
  /\ ~browseResult.hasMore \/ Len(browseResult.people) = 0
  /\ pc' = [at |-> "done", i |-> 0]
  /\ op' = "break"
  /\ UNCHANGED <<out, browseStart, browseResult, log>>
  /\ BrowseFrame

\* start += result.people.length, and round the loop
DoNextPage ==
  /\ pc.at = "yield"
  /\ pc.i > Len(browseResult.people)
  /\ ~(~browseResult.hasMore \/ Len(browseResult.people) = 0)
  /\ browseStart' = NextStart(browseStart, browseResult.people)
  /\ pc' = [at |-> "call", i |-> 0]
  /\ op' = "next page"
  /\ UNCHANGED <<out, browseResult, log>>
  /\ BrowseFrame

NextBrowse == DoListPeople \/ DoListPeopleThrows \/ DoYield \/ DoBreak \/ DoNextPage

SpecBrowse == InitBrowse /\ [][NextBrowse]_vars

\* the consumer keeps asking for the next person and every call of listPeople
\* settles
SpecBrowseFair == SpecBrowse /\ WF_vars(NextBrowse)

\* the people of the pages fetched by the first n calls, in page order
RECURSIVE PagesUpTo(_)
PagesUpTo(n) == IF n = 0 THEN <<>> ELSE PagesUpTo(n - 1) \o log[n].people

\* a page after which the loop stops
LastPage(call) == call.people = <<>> \/ ~(call.start + Len(call.people) < call.total)

C30_Safe ==
  /\ \A n \in 1..Len(log) : log[n].start = Len(PagesUpTo(n - 1))
  /\ pc.at = "call" => browseStart = Len(out) /\ out = PagesUpTo(Len(log))
  /\ pc.at = "yield" => out = PagesUpTo(Len(log) - 1) \o SubSeq(browseResult.people, 1, pc.i - 1)
  /\ pc.at = "done" => out = PagesUpTo(Len(log)) /\ LastPage(log[Len(log)])
  /\ \A n \in 1..Len(log) - 1 : ~LastPage(log[n])
  /\ pc.at = "call" /\ log # <<>> => ~LastPage(log[Len(log)])
  /\ \A total \in 0..MaxTotal :
       (\A n \in 1..Len(log) : log[n].total = total) => Len(log) <= total + 1

\* C30: browseAllPeople terminates and yields every person of every fetched
\* page exactly once, in page order: each listPeople call uses start equal to
\* the number of people yielded so far, the loop stops at the first page that
\* is empty or reports hasMore = false, and with a server reporting one fixed
\* total it makes at most total + 1 calls.
C30_Pagination == []C30_Safe /\ <>(pc.at \in {"done", "threw"})

\* three pages fetched and all their people yielded, the last page ending the loop
C30_Witness ==
  /\ pc.at = "done"
  /\ Len(log) = 3
  /\ Len(out) = 3
  /\ \A n \in 1..Len(log) : log[n].total = MaxTotal

====
